---------------------------- MODULE Spec2Model ----------------------------
(***************************************************************************)
(* Model of the asteroid game (src/src/main.rs, asteroid.rs, missile.rs,   *)
(* vaisseau.rs, config_screen.rs).                                         *)
(*                                                                         *)
(* f32 quantities (positions, speeds, sizes) are fixed-point integers in   *)
(* units of 1/Q pixel; products and quotients truncate toward zero.        *)
(* Angles are integers in units of 0.1 rad (the craft's rotation step).    *)
(* Times are integers in milliseconds.  The shield, whose damage values    *)
(* are whole numbers, and the score are plain integers.                    *)
(***************************************************************************)
EXTENDS Integers, Sequences, FiniteSets

VARIABLES
    vaisseau,          \* the craft: [position, rotation, speed, shield, last_shot]
    liste_asteroid,    \* Vec<Asteroid>: [position, speed, level, has_collided, id]
    missiles,          \* Vec<Missile>: [position, speed, has_collided]
    score,             \* i32
    in_configuration,  \* TRUE: configuration screen, FALSE: playing
    config_screen,     \* [asteroid_count, asteroid_speed, end_message]
    hauteur_vaisseau,  \* craft size
    rayon_missile,     \* missile radius
    level_size,        \* <<size of level 3, size of level 2, size of level 1>>
    gravite_dist,      \* gravity range
    last_screen_size,  \* cached <<width, height>>
    screen,            \* the window's current <<width, height>> (screen_width(), screen_height())
    now,               \* the clock (get_time()), in ms
    status,            \* "running", "panicked" or "exited"
    next_id,           \* next fresh asteroid identity
    last,              \* the step taken last
    pre                \* the state the last step started from, with the step's inputs

vars == <<vaisseau, liste_asteroid, missiles, score, in_configuration, config_screen,
          hauteur_vaisseau, rayon_missile, level_size, gravite_dist, last_screen_size,
          screen, now, status, next_id, last, pre>>

---------------------------------------------------------------------------
(* Fixed-point arithmetic.                                                 *)

Q == 100

\* The element of a one-element set; Only({e(x) : x \in {v}}) is e(v) with v
\* evaluated once.
Only(S) == CHOOSE x \in S : TRUE

Abs(a) == IF a < 0 THEN -a ELSE a

Sign(a) == IF a < 0 THEN -1 ELSE 1

\* Quotient truncated toward zero.
TDiv(a, b) == Sign(a) * Sign(b) * (Abs(a) \div Abs(b))

\* Quotient rounded to the nearest integer, halves away from zero (f32::round).
RDiv(a, b) == Sign(a) * Sign(b) * ((2 * Abs(a) + Abs(b)) \div (2 * Abs(b)))

FMul(a, b) == TDiv(a * b, Q)

FDiv(a, b) == TDiv(a * Q, b)

RECURSIVE IsqrtIter(_, _, _)
IsqrtIter(n, lo, hi) ==
    IF lo >= hi THEN lo
    ELSE LET mid == (lo + hi + 1) \div 2
         IN  IF mid * mid <= n THEN IsqrtIter(n, mid, hi)
             ELSE IsqrtIter(n, lo, mid - 1)

Isqrt(n) == IsqrtIter(n, 0, 46340)

Vec2(x, y) == <<x, y>>

ZERO == <<0, 0>>

NaN == <<"NaN", "NaN">>

VAdd(a, b) == <<a[1] + b[1], a[2] + b[2]>>

VSub(a, b) == <<a[1] - b[1], a[2] - b[2]>>

VNeg(a) == <<-a[1], -a[2]>>

\* Vector times a fixed-point scalar.
VScale(a, s) == <<FMul(a[1], s), FMul(a[2], s)>>

\* Vector divided by a fixed-point scalar.
VDivS(a, s) == <<FDiv(a[1], s), FDiv(a[2], s)>>

LengthSquared(a) == a[1] * a[1] + a[2] * a[2]

Length(a) == Isqrt(LengthSquared(a))

\* glam's normalize: the zero vector has no direction (NaN components).
Normalize(a) == Only({IF len = 0 THEN NaN ELSE VDivS(a, len) : len \in {Length(a)}})

Powi2(a) == a * a

\* 100 * sin(0.1 k) and 100 * cos(0.1 k), k = 0 .. 32, rounded.
SinTab == <<0, 10, 20, 30, 39, 48, 56, 64, 72, 78, 84, 89, 93, 96, 99, 100, 100,
            99, 97, 95, 91, 86, 81, 75, 68, 60, 52, 43, 33, 24, 14, 4, -6>>

CosTab == <<100, 100, 98, 96, 92, 88, 83, 76, 70, 62, 54, 45, 36, 27, 17, 7, -3,
            -13, -23, -32, -42, -50, -59, -67, -74, -80, -86, -90, -94, -97, -99,
            -100, -100>>

Sin(k) == IF k < 0 THEN -SinTab[1 - k] ELSE SinTab[1 + k]

Cos(k) == IF k < 0 THEN CosTab[1 - k] ELSE CosTab[1 + k]

---------------------------------------------------------------------------
(* Sequence helpers (Vec operations).                                      *)

\* Vec::remove(index) with a 0-based index < len.
RemoveAt(s, index) == SubSeq(s, 1, index) \o SubSeq(s, index + 2, Len(s))

RECURSIVE SeqMax(_)
SeqMax(s) == IF Len(s) = 1 THEN s[1]
             ELSE LET m == SeqMax(Tail(s)) IN IF s[1] >= m THEN s[1] ELSE m

\* Position of the first occurrence of x in s.
IndexOf(s, x) == CHOOSE i \in 1..Len(s) : s[i] = x /\ \A j \in 1..(i - 1) : s[j] # x

\* sort_unstable_by(|a, b| b.cmp(a)): descending, duplicates kept.
RECURSIVE SortDesc(_)
SortDesc(s) == IF Len(s) = 0 THEN <<>>
               ELSE LET m == SeqMax(s)
                    IN  <<m>> \o SortDesc(RemoveAt(s, IndexOf(s, m) - 1))

---------------------------------------------------------------------------
(* Program constants (src/src/main.rs, main).                              *)

InitHauteurVaisseau == 30 * Q

InitRayonMissile == 7 * Q

InitLevelSize == <<40 * Q, 20 * Q, 10 * Q>>

InitGraviteDist == 30 * Q

\* Missile speed K = 1.5.
MissileSpeed == 150

\* Fire cooldown 0.5 s, in ms.
FireCooldown == 500

\* get_time() at program start.
begin_time == 0


---------------------------------------------------------------------------
(* Option values.                                                          *)

\* Option<T>: None is the empty sequence, Some(x) the one-element sequence.
None == <<>>

Some(x) == <<x>>

\* Option::unwrap_or_else
UnwrapOr(opt, default) == IF opt = None THEN default ELSE opt[1]

---------------------------------------------------------------------------
(* Asteroid (src/src/asteroid.rs).                                         *)

\* Size of an asteroid level in a level_size tuple (match on level).
LevelToSize(level, sizes) ==
    CASE level = 3 -> sizes[1]
      [] level = 2 -> sizes[2]
      [] level = 1 -> sizes[3]
      [] OTHER -> 0

\* random_position: side is rng.gen_range(0..4), along the coordinate drawn on
\* that side's edge (gen_range(0.0..screen_width()) or (0.0..screen_height())).
RandomPosition(level, sizes, scr, side, along) ==
    LET size == LevelToSize(level, sizes)
    IN  CASE side = 0 -> Vec2(along, -size)
          [] side = 1 -> Vec2(scr[1] + size, along)
          [] side = 2 -> Vec2(along, scr[2] + size)
          [] side = 3 -> Vec2(-size, along)

\* Asteroid::new; position is an Option<Vec2>, rnd the draw random_position makes.
AsteroidNew(level, speed, sizes, position, scr, rnd, id) ==
    [position |-> UnwrapOr(position, RandomPosition(level, sizes, scr, rnd.side, rnd.along)),
     speed |-> speed,
     level |-> level,
     has_collided |-> FALSE,
     id |-> id]

\* Faulty variant of Asteroid::wrap_position: a negative coordinate is
\* mirrored beyond max.
AsteroidWrapPositionMirror(coord, max) ==
    IF coord < 0 THEN max - coord
    ELSE IF coord > max THEN coord - max
    ELSE coord

AsteroidWrapPosition(coord, max) ==
    IF coord < 0 THEN max + coord
    ELSE IF coord > max THEN coord - max
    ELSE coord

AsteroidBoundPosition(pos, scr) ==
    Vec2(AsteroidWrapPosition(pos[1], scr[1]), AsteroidWrapPosition(pos[2], scr[2]))

AsteroidUpdatePosition(a, scr) ==
    [a EXCEPT !.position = AsteroidBoundPosition(VAdd(a.position, a.speed), scr)]

\* Faulty variant of split_asteroid: the children fly along the missile and
\* against it.
SplitAsteroidAlong(a, speed_missile, id1, id2) ==
    LET asteroid_speed_norm == Length(a.speed)
        direction_1 == Normalize(speed_missile)
        direction_2 == Normalize(VNeg(speed_missile))
    IN  <<[position |-> a.position,
           speed |-> VScale(direction_1, asteroid_speed_norm),
           level |-> (a.level - 1) % 256,
           has_collided |-> FALSE,
           id |-> id1],
          [position |-> a.position,
           speed |-> VScale(direction_2, asteroid_speed_norm),
           level |-> (a.level - 1) % 256,
           has_collided |-> FALSE,
           id |-> id2]>>

\* split_asteroid: the two children; level is a u8.
SplitAsteroid(a, speed_missile, id1, id2) ==
    LET asteroid_speed_norm == Length(a.speed)
        perpendicular_direction_1 == Normalize(Vec2(-speed_missile[2], speed_missile[1]))
        perpendicular_direction_2 == Normalize(Vec2(speed_missile[2], -speed_missile[1]))
    IN  <<[position |-> a.position,
           speed |-> VScale(perpendicular_direction_1, asteroid_speed_norm),
           level |-> (a.level - 1) % 256,
           has_collided |-> FALSE,
           id |-> id1],
          [position |-> a.position,
           speed |-> VScale(perpendicular_direction_2, asteroid_speed_norm),
           level |-> (a.level - 1) % 256,
           has_collided |-> FALSE,
           id |-> id2]>>

\* Faulty variant of Asteroid::handle_collision: an asteroid of level 1 splits
\* too.
AsteroidHandleCollisionAnyLevel(a, object, collided, speed_missile, id1, id2) ==
    [self |-> [a EXCEPT !.has_collided = collided],
     spawned |-> IF collided /\ object = 1
                 THEN SplitAsteroid(a, speed_missile, id1, id2)
                 ELSE <<>>]

\* Faulty variant of Asteroid::handle_collision: the flag is left as it was.
AsteroidHandleCollisionKeep(a, object, collided, speed_missile, id1, id2) ==
    [self |-> a,
     spawned |-> IF collided /\ object = 1 /\ a.level > 1
                 THEN SplitAsteroid(a, speed_missile, id1, id2)
                 ELSE <<>>]

\* Asteroid::handle_collision: the asteroid afterwards and the pair it returns
\* (<<>> for None).
AsteroidHandleCollision(a, object, collided, speed_missile, id1, id2) ==
    LET self == [a EXCEPT !.has_collided = collided]
    IN  [self |-> self,
         spawned |-> IF self.has_collided /\ object = 1 /\ self.level > 1
                     THEN SplitAsteroid(self, speed_missile, id1, id2)
                     ELSE <<>>]

---------------------------------------------------------------------------
(* Missile (src/src/missile.rs).                                           *)

MissileNew(position, angle) ==
    [position |-> position,
     speed |-> Vec2(FMul(Sin(angle), MissileSpeed), -FMul(Cos(angle), MissileSpeed)),
     has_collided |-> FALSE]

\* Faulty variant of is_off_screen: a missile on an edge is off the screen.
IsOffScreenEdge(m, screen_width, screen_height) ==
    \/ m.position[1] <= 0
    \/ m.position[1] >= screen_width
    \/ m.position[2] <= 0
    \/ m.position[2] >= screen_height

IsOffScreen(m, screen_width, screen_height) ==
    \/ m.position[1] < 0
    \/ m.position[1] > screen_width
    \/ m.position[2] < 0
    \/ m.position[2] > screen_height

\* Faulty variant of Missile::update_position: the missile stays where it is.
MissileUpdatePositionStill(m) == m

MissileUpdatePosition(m) == [m EXCEPT !.position = VAdd(m.position, m.speed)]

\* Missile::handle_collision ignores its arguments and returns None.
MissileHandleCollision(m) == [m EXCEPT !.has_collided = TRUE]

---------------------------------------------------------------------------
(* Vaisseau (src/src/vaisseau.rs).                                         *)

InitShield == 5

\* Vaisseau::new; position and last_shot are Options, time is get_time().
VaisseauNew(position, last_shot, scr, time) ==
    [position |-> UnwrapOr(position, Vec2(TDiv(scr[1], 2), TDiv(scr[2], 2))),
     rotation |-> 0,
     speed |-> Vec2(0, 0),
     shield |-> InitShield,
     last_shot |-> UnwrapOr(last_shot, time)]

\* Faulty variant of fire_missile: no cooldown.
FireMissileEager(v, current_time, keys) ==
    IF "Space" \in keys
    THEN [self |-> [v EXCEPT !.last_shot = current_time],
          missile |-> Some(MissileNew(v.position, v.rotation))]
    ELSE [self |-> v, missile |-> None]

\* fire_missile: the craft afterwards and the Option<Missile> it returns.
FireMissile(v, current_time, keys) ==
    IF "Space" \in keys /\ current_time - v.last_shot >= FireCooldown
    THEN [self |-> [v EXCEPT !.last_shot = current_time],
          missile |-> Some(MissileNew(v.position, v.rotation))]
    ELSE [self |-> v, missile |-> None]

\* Faulty variant of Vaisseau::wrap_position: a coordinate on the edge 0 is
\* sent to the opposite edge, and one on the edge max to 0.
VaisseauWrapPositionFlip(coord, max) ==
    IF coord <= 0 THEN max - coord
    ELSE IF coord >= max THEN coord - max
    ELSE coord

VaisseauWrapPosition(coord, max) ==
    IF coord < 0 THEN max - coord
    ELSE IF coord > max THEN coord - max
    ELSE coord

VaisseauBoundPosition(pos, scr) ==
    Vec2(VaisseauWrapPosition(pos[1], scr[1]), VaisseauWrapPosition(pos[2], scr[2]))

\* Faulty variant of Vaisseau::update_position: the new velocity is taken as
\* it is, whatever its magnitude.
VaisseauUpdatePositionUncapped(v, keys, scr) ==
    LET rot1 == IF "Right" \in keys THEN v.rotation + 1 ELSE v.rotation
        rot2 == IF "Left" \in keys THEN rot1 - 1 ELSE rot1
        heading == Vec2(Sin(rot2), Cos(rot2))
        acceleration == IF "Up" \in keys THEN VNeg(heading)
                        ELSE IF "Down" \in keys THEN heading
                        ELSE ZERO
        speed1 == IF "Up" \in keys \/ "Down" \in keys THEN v.speed
                  ELSE IF LengthSquared(v.speed) > 1
                       THEN Vec2(TDiv(v.speed[1] * 995, 1000), TDiv(v.speed[2] * 995, 1000))
                       ELSE ZERO
        new_speed == VAdd(speed1, acceleration)
    IN  [v EXCEPT !.rotation = rot2,
                  !.speed = new_speed,
                  !.position = VaisseauBoundPosition(VAdd(v.position, new_speed), scr)]

\* Vaisseau::update_position with the keys held down.
VaisseauUpdatePosition(v, keys, scr) ==
    LET rot1 == IF "Right" \in keys THEN v.rotation + 1 ELSE v.rotation
        rot2 == IF "Left" \in keys THEN rot1 - 1 ELSE rot1
        heading == Vec2(Sin(rot2), Cos(rot2))
        acceleration == IF "Up" \in keys THEN VNeg(heading)
                        ELSE IF "Down" \in keys THEN heading
                        ELSE ZERO
        speed1 == IF "Up" \in keys \/ "Down" \in keys THEN v.speed
                  ELSE IF LengthSquared(v.speed) > 1
                       THEN Vec2(TDiv(v.speed[1] * 995, 1000), TDiv(v.speed[2] * 995, 1000))
                       ELSE ZERO
        new_speed == VAdd(speed1, acceleration)
        speed2 == IF LengthSquared(new_speed) > Q * Q THEN Normalize(new_speed)
                  ELSE new_speed
    IN  [v EXCEPT !.rotation = rot2,
                  !.speed = speed2,
                  !.position = VaisseauBoundPosition(VAdd(v.position, speed2), scr)]

\* Faulty variant of Vaisseau::handle_collision: the craft is thrown back to
\* the origin as well.
VaisseauHandleCollisionThrown(v, asteroid_level) ==
    [v EXCEPT !.shield = v.shield - asteroid_level, !.position = ZERO]

\* Faulty variant of Vaisseau::handle_collision: one point of damage whatever
\* the level.
VaisseauHandleCollisionFlat(v, asteroid_level) == [v EXCEPT !.shield = v.shield - 1]

\* Vaisseau::handle_collision: damage by asteroid level; returns None.
VaisseauHandleCollision(v, asteroid_level) ==
    LET dmg == CASE asteroid_level = 1 -> 1
                 [] asteroid_level = 2 -> 2
                 [] asteroid_level = 3 -> 3
                 [] OTHER -> 0
    IN  [v EXCEPT !.shield = v.shield - dmg]

---------------------------------------------------------------------------
(* Collision passes (src/src/main.rs).                                     *)

\* asteroid_level: the size of an asteroid.
asteroid_level(a, sizes) ==
    CASE a.level = 1 -> sizes[3]
      [] a.level = 2 -> sizes[2]
      [] a.level = 3 -> sizes[1]
      [] OTHER -> 0

G_CONSTANT == 50

MAX_FORCE == 200

\* Faulty variant of calculate_gravity: at distance 0 the force is the
\* largest one, to the right.
calculate_gravityMax(v, a, g_constant, h_vaisseau, sizes) ==
    LET direction == VSub(a.position, v.position)
        distance == Length(direction)
        unit_direction == VDivS(direction, distance)
        size_asteroid == asteroid_level(a, sizes)
        raw == (g_constant * h_vaisseau * size_asteroid) \div LengthSquared(direction)
        force_magnitude == IF raw > MAX_FORCE THEN MAX_FORCE ELSE raw
    IN  IF distance = 0 THEN <<MAX_FORCE, 0>> ELSE VScale(unit_direction, force_magnitude)

\* calculate_gravity
calculate_gravity(v, a, g_constant, h_vaisseau, sizes) ==
    LET direction == VSub(a.position, v.position)
        distance == Length(direction)
        unit_direction == VDivS(direction, distance)
        size_asteroid == asteroid_level(a, sizes)
        \* g * h * size / distance^2, in units of 1/Q
        raw == (g_constant * h_vaisseau * size_asteroid) \div LengthSquared(direction)
        force_magnitude == IF raw > MAX_FORCE THEN MAX_FORCE ELSE raw
    IN  IF distance = 0 THEN ZERO ELSE VScale(unit_direction, force_magnitude)

\* Faulty variant of the loop body: an asteroid marked has_collided damages
\* the craft again.
VaisseauAsteroidStepAgain(v, a, v_position, h_vaisseau, sizes, g_dist) ==
    LET asteroid_size == asteroid_level(a, sizes)
        distance_squared == LengthSquared(VSub(a.position, v_position))
        collision_distance_squared == Powi2(asteroid_size + h_vaisseau)
        dist_gravity == asteroid_size + g_dist
        v1 == IF distance_squared <= Powi2(dist_gravity)
              THEN [v EXCEPT !.speed = calculate_gravity(v, a, G_CONSTANT, h_vaisseau, sizes)]
              ELSE v
    IN  IF distance_squared > collision_distance_squared
        THEN [vaisseau |-> v, asteroid |-> a]
        ELSE [vaisseau |-> VaisseauHandleCollision(v1, a.level),
              asteroid |-> AsteroidHandleCollision(a, 0, TRUE, ZERO, 0, 0).self]

\* Faulty variant of the loop body: the gravity test comes before the skip.
VaisseauAsteroidStepPull(v, a, v_position, h_vaisseau, sizes, g_dist) ==
    LET asteroid_size == asteroid_level(a, sizes)
        distance_squared == LengthSquared(VSub(a.position, v_position))
        collision_distance_squared == Powi2(asteroid_size + h_vaisseau)
        dist_gravity == asteroid_size + g_dist
        v1 == IF distance_squared <= Powi2(dist_gravity)
              THEN [v EXCEPT !.speed = calculate_gravity(v, a, G_CONSTANT, h_vaisseau, sizes)]
              ELSE v
        hit == distance_squared <= collision_distance_squared /\ ~a.has_collided
    IN  [vaisseau |-> IF hit THEN VaisseauHandleCollision(v1, a.level) ELSE v1,
         asteroid |-> IF hit
                      THEN AsteroidHandleCollision(a, 0, TRUE, ZERO, 0, 0).self
                      ELSE a]

\* One iteration of the loop of check_vaisseau_asteroids: the craft and the
\* asteroid afterwards.
VaisseauAsteroidStep(v, a, v_position, h_vaisseau, sizes, g_dist) ==
    LET asteroid_size == asteroid_level(a, sizes)
        distance_squared == LengthSquared(VSub(a.position, v_position))
        collision_distance_squared == Powi2(asteroid_size + h_vaisseau)
        dist_gravity == asteroid_size + g_dist
        v1 == IF distance_squared <= Powi2(dist_gravity)
              THEN [v EXCEPT !.speed = calculate_gravity(v, a, G_CONSTANT, h_vaisseau, sizes)]
              ELSE v
        hit == distance_squared <= collision_distance_squared /\ ~a.has_collided
    IN  IF distance_squared > collision_distance_squared
        THEN [vaisseau |-> v, asteroid |-> a]
        ELSE [vaisseau |-> IF hit THEN VaisseauHandleCollision(v1, a.level) ELSE v1,
              asteroid |-> IF hit
                           THEN AsteroidHandleCollision(a, 0, TRUE, ZERO, 0, 0).self
                           ELSE a]

\* check_vaisseau_asteroids: the craft and the asteroids afterwards.
RECURSIVE VaisseauAsteroidLoop(_, _, _, _, _, _, _)
VaisseauAsteroidLoop(v, asts, i, v_position, h_vaisseau, sizes, g_dist) ==
    IF i > Len(asts) THEN [vaisseau |-> v, asteroids |-> asts]
    ELSE Only({VaisseauAsteroidLoop(r.vaisseau, [asts EXCEPT ![i] = r.asteroid], i + 1,
                                    v_position, h_vaisseau, sizes, g_dist)
               : r \in {VaisseauAsteroidStep(v, asts[i], v_position, h_vaisseau, sizes,
                                             g_dist)}})

check_vaisseau_asteroids(v, asts, h_vaisseau, sizes, g_dist) ==
    VaisseauAsteroidLoop(v, asts, 1, v.position, h_vaisseau, sizes, g_dist)

\* The test of the inner loop of check_missiles_asteroids: the asteroid is
\* not skipped by `continue`.
MissileInRange(m, a, r_missile, sizes) ==
    LET distance_squared == LengthSquared(VSub(m.position, a.position))
        asteroid_size == asteroid_level(a, sizes)
        collision_distance_squared == Powi2(asteroid_size + r_missile)
    IN  ~(distance_squared >= collision_distance_squared)

\* Faulty variant of the inner loop, without the break: the last asteroid in
\* range is the one recorded.
ScanAsteroidsLast(m, asts, j, r_missile, sizes) ==
    LET hits == {k \in j..Len(asts) : MissileInRange(m, asts[k], r_missile, sizes)}
    IN  IF hits = {} THEN -1 ELSE (CHOOSE k \in hits : \A h \in hits : h <= k) - 1

\* The inner loop for one missile: the 0-based index of the asteroid at which
\* the loop breaks, -1 when it runs to the end.
RECURSIVE ScanAsteroids(_, _, _, _, _)
ScanAsteroids(m, asts, j, r_missile, sizes) ==
    IF j > Len(asts) THEN -1
    ELSE IF MissileInRange(m, asts[j], r_missile, sizes) THEN j - 1
    ELSE ScanAsteroids(m, asts, j + 1, r_missile, sizes)

\* The outer loop over the missiles from missile i on; acc holds missiles,
\* asteroids, score, asteroids_to_remove, new_asteroids and next_id.
RECURSIVE ScanMissiles(_, _, _, _)
ScanMissiles(acc, i, r_missile, sizes) ==
    IF i > Len(acc.missiles) THEN acc
    ELSE Only({
           IF index < 0 THEN ScanMissiles(acc, i + 1, r_missile, sizes)
           ELSE LET asteroid == acc.asteroids[index + 1]
                    hit_missile == MissileHandleCollision(acc.missiles[i])
                IN  Only({
                      ScanMissiles(
                          [missiles |-> [acc.missiles EXCEPT ![i] = hit_missile],
                           asteroids |-> [acc.asteroids EXCEPT ![index + 1] = res.self],
                           score |-> acc.score + asteroid.level * 10,
                           asteroids_to_remove |-> Append(acc.asteroids_to_remove, index),
                           new_asteroids |-> acc.new_asteroids \o res.spawned,
                           next_id |-> IF res.spawned # <<>> THEN acc.next_id + 2
                                       ELSE acc.next_id],
                          i + 1, r_missile, sizes)
                      : res \in {AsteroidHandleCollision(asteroid, 1, TRUE, hit_missile.speed,
                                                         acc.next_id, acc.next_id + 1)}})
           : index \in {ScanAsteroids(acc.missiles[i], acc.asteroids, 1, r_missile, sizes)}})

\* for index in asteroids_to_remove { asteroids.remove(index) }: Vec::remove
\* panics when index >= len; the asteroids afterwards, or at the panic.
RECURSIVE RemoveAsteroids(_, _)
RemoveAsteroids(asts, indices) ==
    IF Len(indices) = 0 THEN [panicked |-> FALSE, asteroids |-> asts]
    ELSE IF Head(indices) >= Len(asts) THEN [panicked |-> TRUE, asteroids |-> asts]
    ELSE RemoveAsteroids(RemoveAt(asts, Head(indices)), Tail(indices))

\* check_missiles_asteroids: missiles, asteroids, score and next_id afterwards,
\* or, when the call panicked, at the time of the panic.
check_missiles_asteroids(ms, asts, r_missile, sizes, sc, nid) ==
    Only({
      Only({
        [panicked |-> removed.panicked,
         missiles |-> SelectSeq(scanned.missiles, LAMBDA m : ~m.has_collided),
         asteroids |-> IF removed.panicked THEN removed.asteroids
                       ELSE removed.asteroids \o scanned.new_asteroids,
         score |-> scanned.score,
         next_id |-> scanned.next_id]
        : removed \in {RemoveAsteroids(scanned.asteroids,
                                       SortDesc(scanned.asteroids_to_remove))}})
      : scanned \in {ScanMissiles([missiles |-> ms, asteroids |-> asts, score |-> sc,
                                   asteroids_to_remove |-> <<>>, new_asteroids |-> <<>>,
                                   next_id |-> nid], 1, r_missile, sizes)}})

---------------------------------------------------------------------------
(* Position updates, reset and rescale (src/src/main.rs).                  *)

update_model_vaisseau(v, keys, scr) == VaisseauUpdatePosition(v, keys, scr)

update_asteroids(asts, scr) ==
    [i \in 1..Len(asts) |-> AsteroidUpdatePosition(asts[i], scr)]

update_missiles(ms, scr) ==
    LET moved == [i \in 1..Len(ms) |-> MissileUpdatePosition(ms[i])]
    IN  SelectSeq(moved, LAMBDA m : ~IsOffScreen(m, scr[1], scr[2]))

\* Faulty variant of min_speed: 0.2 + 0.4 whatever the speed factor.
MinSpeedFixed(asteroid_speed) == 20 + 40

\* The speed range of reset_game for a speed factor.
MinSpeed(asteroid_speed) == 20 + FMul(Q - asteroid_speed, 40)

MaxSpeed(asteroid_speed) == FMul(asteroid_speed, 2 * Q)

\* Faulty variant of the loop body of reset_game: the asteroid is of level 2.
ResetAsteroidLevel2(min_speed, max_speed, sizes, position, scr, rnd, id) ==
    AsteroidNew(2, Vec2(min_speed, 0), sizes, position, scr,
                [side |-> rnd.side, along |-> 0], id)

\* One iteration of the loop of reset_game: the asteroid pushed.  rnd holds the
\* draws: <<cos, sin>> of the angle, the speed magnitude as a percentage of the
\* way from min_speed to max_speed, and the side and place random_position draws.
ResetAsteroid(min_speed, max_speed, sizes, position, scr, rnd, id) ==
    LET speed_magnitude == min_speed + TDiv((max_speed - min_speed) * rnd.frac, 100)
        speed == Vec2(FMul(speed_magnitude, rnd.dir[1]), FMul(speed_magnitude, rnd.dir[2]))
    IN  AsteroidNew(3, speed, sizes, position, scr,
                    [side |-> rnd.side,
                     along |-> IF rnd.side \in {0, 2} THEN TDiv(scr[1] * rnd.along, 100)
                               ELSE TDiv(scr[2] * rnd.along, 100)],
                    id)

\* Faulty variant of reset_game: the collections are emptied and the craft is
\* replaced, but the score is left as it was.
reset_gameKeepScore(sizes, number_asteroid, asteroid_speed, test, scr, time, rnds, nid) ==
    [panicked |-> FALSE,
     liste_asteroid |-> <<>>,
     vaisseau |-> VaisseauNew(None, None, scr, time),
     missiles |-> <<>>,
     score |-> score,
     next_id |-> nid]

\* Faulty variant of reset_game: the asteroids, missiles and score are made
\* anew, but the craft of the round before is kept.
reset_gameKeepCraft(sizes, number_asteroid, asteroid_speed, test, scr, time, rnds, nid) ==
    LET n == IF number_asteroid < 0 THEN 0 ELSE number_asteroid
    IN  [panicked |-> FALSE,
         liste_asteroid |-> [i \in 1..n |->
                                ResetAsteroid(MinSpeed(asteroid_speed),
                                              MaxSpeed(asteroid_speed), sizes,
                                              IF test THEN Some(Vec2(0, 0)) ELSE None,
                                              scr, rnds[i], nid + i - 1)],
         vaisseau |-> vaisseau,
         missiles |-> <<>>,
         score |-> 0,
         next_id |-> nid + n]

\* reset_game: the collections, craft, score and next_id afterwards; gen_range
\* panics on an empty range, in the first iteration of the loop.
reset_game(sizes, number_asteroid, asteroid_speed, test, scr, time, rnds, nid) ==
    LET position == IF test THEN Some(Vec2(0, 0)) ELSE None
        last_shot == IF test THEN Some(0) ELSE None
        min_speed == MinSpeed(asteroid_speed)
        max_speed == MaxSpeed(asteroid_speed)
        n == IF number_asteroid < 0 THEN 0 ELSE number_asteroid
        panicked == n > 0 /\ ~(min_speed < max_speed)
    IN  [panicked |-> panicked,
         liste_asteroid |-> IF panicked THEN <<>>
                            ELSE [i \in 1..n |->
                                     ResetAsteroid(min_speed, max_speed, sizes, position,
                                                   scr, rnds[i], nid + i - 1)],
         vaisseau |-> VaisseauNew(position, last_shot, scr, time),
         missiles |-> <<>>,
         score |-> 0,
         next_id |-> nid + n]

\* Screen size update_scale uses in test mode.
TestScreen == <<500 * Q, 400 * Q>>

\* Faulty variant of update_scale: the scale is that of the width alone.
update_scaleWidth(h_vaisseau, r_missile, sizes, last_size, g_dist, test, scr) ==
    LET current == IF test THEN TestScreen ELSE scr
        scale_factor == FDiv(current[1], last_size[1])
    IN  [hauteur_vaisseau |-> FMul(h_vaisseau, scale_factor),
         rayon_missile |-> FMul(r_missile, scale_factor),
         level_size |-> <<FMul(sizes[1], scale_factor), FMul(sizes[2], scale_factor),
                          FMul(sizes[3], scale_factor)>>,
         gravite_dist |-> FMul(g_dist, scale_factor),
         last_screen_size |-> current]

\* update_scale: the five size parameters and the cached screen size afterwards.
update_scale(h_vaisseau, r_missile, sizes, last_size, g_dist, test, scr) ==
    LET current == IF test THEN TestScreen ELSE scr
        width_scale == FDiv(current[1], last_size[1])
        height_scale == FDiv(current[2], last_size[2])
        scale_factor == TDiv(width_scale + height_scale, 2)
    IN  [hauteur_vaisseau |-> FMul(h_vaisseau, scale_factor),
         rayon_missile |-> FMul(r_missile, scale_factor),
         level_size |-> <<FMul(sizes[1], scale_factor), FMul(sizes[2], scale_factor),
                          FMul(sizes[3], scale_factor)>>,
         gravite_dist |-> FMul(g_dist, scale_factor),
         last_screen_size |-> current]

---------------------------------------------------------------------------
(* Configuration screen (src/src/config_screen.rs).                        *)

SLIDER_WIDTH == 300 * Q

BUTTON_SIZE == <<200 * Q, 50 * Q>>

ConfigScreenNew == [asteroid_count |-> 10, asteroid_speed |-> Q, end_message |-> None]

Clamp(x, lo, hi) == IF x < lo THEN lo ELSE IF x > hi THEN hi ELSE x

\* Faulty variant of ConfigScreen::update: the pointer is followed along the
\* line of a slider beyond its ends, and the value is not clamped.
ConfigScreenUpdateBeyond(cs, mouse, scr) ==
    LET slider_x == TDiv(scr[1], 2) - TDiv(SLIDER_WIDTH, 2)
        asteroid_slider_y == TDiv(scr[2] * 4, 10)
        speed_slider_y == TDiv(scr[2], 2) + 50 * Q
        count == TDiv(TDiv((mouse.x - slider_x) * 24 * Q, SLIDER_WIDTH) + Q, Q)
        speed == TDiv((mouse.x - slider_x) * 470, SLIDER_WIDTH) + 30
        cs1 == IF mouse.down /\ Abs(mouse.y - asteroid_slider_y) <= 10 * Q
               THEN [cs EXCEPT !.asteroid_count = count]
               ELSE cs
    IN  IF mouse.down /\ Abs(mouse.y - speed_slider_y) <= 10 * Q
        THEN [cs1 EXCEPT !.asteroid_speed = speed]
        ELSE cs1

\* ConfigScreen::update with the pointer at <<mouse.x, mouse.y>> and the left
\* button down or not.
ConfigScreenUpdate(cs, mouse, scr) ==
    LET slider_x == TDiv(scr[1], 2) - TDiv(SLIDER_WIDTH, 2)
        asteroid_slider_y == TDiv(scr[2] * 4, 10)
        speed_slider_y == TDiv(scr[2], 2) + 50 * Q
        in_x == mouse.x >= slider_x /\ mouse.x <= slider_x + SLIDER_WIDTH
        on_asteroid_slider == in_x /\ Abs(mouse.y - asteroid_slider_y) <= 10 * Q
        on_speed_slider == in_x /\ Abs(mouse.y - speed_slider_y) <= 10 * Q
        count == TDiv(TDiv((mouse.x - slider_x) * 24 * Q, SLIDER_WIDTH) + Q, Q)
        speed == TDiv((mouse.x - slider_x) * 470, SLIDER_WIDTH) + 30
        cs1 == IF mouse.down /\ on_asteroid_slider
               THEN [cs EXCEPT !.asteroid_count = Clamp(count, 1, 25)]
               ELSE cs
    IN  IF mouse.down /\ on_speed_slider
        THEN [cs1 EXCEPT !.asteroid_speed = Clamp(speed, 30, 500)]
        ELSE cs1

is_start_pressed(cs, mouse, scr) ==
    LET button_x == TDiv(scr[1], 2) - TDiv(BUTTON_SIZE[1], 2)
        button_y == TDiv(scr[2] * 6, 10)
    IN  /\ mouse.pressed
        /\ mouse.x > button_x
        /\ mouse.x < button_x + BUTTON_SIZE[1]
        /\ mouse.y > button_y
        /\ mouse.y < button_y + BUTTON_SIZE[2]

is_exit_pressed(cs, mouse, scr) ==
    LET button_x == TDiv(scr[1], 2) - TDiv(BUTTON_SIZE[1], 2)
        button_y == TDiv(scr[2] * 6, 10) + BUTTON_SIZE[2] + 10 * Q
    IN  /\ mouse.pressed
        /\ mouse.x > button_x
        /\ mouse.x < button_x + BUTTON_SIZE[1]
        /\ mouse.y > button_y
        /\ mouse.y < button_y + BUTTON_SIZE[2]

\* set_end_message(format!(...)): the kind of message and the score it shows.
SetEndMessage(cs, kind, sc) == [cs EXCEPT !.end_message = Some([kind |-> kind, score |-> sc])]

---------------------------------------------------------------------------
(* The main loop (src/src/main.rs, main).  One action is one iteration of  *)
(* the loop; its inputs are the time the clock has advanced to, the keys   *)
(* held, the pointer and the window size during the iteration.             *)

\* The state a step starts from, with the step's inputs.
Snapshot(inputs) ==
    [vaisseau |-> vaisseau, liste_asteroid |-> liste_asteroid, missiles |-> missiles,
     score |-> score, in_configuration |-> in_configuration,
     config_screen |-> config_screen, hauteur_vaisseau |-> hauteur_vaisseau,
     rayon_missile |-> rayon_missile, level_size |-> level_size,
     gravite_dist |-> gravite_dist, last_screen_size |-> last_screen_size,
     now |-> now, last |-> last, inputs |-> inputs]

NoInputs == [keys |-> {}, time |-> 0, screen |-> <<0, 0>>]

\* Faulty variant of the update pipeline: the fire key is looked at before
\* the moves, so that the missile fired leaves the craft where it was and is
\* moved in the same iteration.
UpdatePipelineFireFirst(keys, time, scr) ==
    LET sc == IF last_screen_size # scr
              THEN update_scale(hauteur_vaisseau, rayon_missile, level_size,
                                last_screen_size, gravite_dist, FALSE, scr)
              ELSE [hauteur_vaisseau |-> hauteur_vaisseau, rayon_missile |-> rayon_missile,
                    level_size |-> level_size, gravite_dist |-> gravite_dist,
                    last_screen_size |-> last_screen_size]
    IN  Only({
          Only({
            Only({
              [panicked |-> ma.panicked, vaisseau |-> va.vaisseau,
               liste_asteroid |-> ma.asteroids, missiles |-> ma.missiles,
               score |-> ma.score, next_id |-> ma.next_id, scale |-> sc]
              : ma \in {check_missiles_asteroids(
                            update_missiles(
                                IF fired.missile # None
                                THEN Append(missiles, fired.missile[1]) ELSE missiles,
                                scr),
                            va.asteroids, rayon_missile, level_size, score, next_id)}})
            : va \in {check_vaisseau_asteroids(
                          update_model_vaisseau(fired.self, keys, scr),
                          update_asteroids(liste_asteroid, scr),
                          hauteur_vaisseau, level_size, gravite_dist)}})
          : fired \in {FireMissile(vaisseau, time, keys)}})

\* The update pipeline of a Playing iteration (the last else branch).
UpdatePipeline(keys, time, scr) ==
    LET Fire(v1) == FireMissile(v1, time, keys)
        Missiles2(m1, fired) ==
            IF fired.missile # None THEN Append(m1, fired.missile[1]) ELSE m1
        Crafts(fired) ==
            check_vaisseau_asteroids(fired.self, update_asteroids(liste_asteroid, scr),
                                     hauteur_vaisseau, level_size, gravite_dist)
        Shots(m2, va) ==
            check_missiles_asteroids(m2, va.asteroids, rayon_missile, level_size, score,
                                     next_id)
        sc == IF last_screen_size # scr
              THEN update_scale(hauteur_vaisseau, rayon_missile, level_size,
                                last_screen_size, gravite_dist, FALSE, scr)
              ELSE [hauteur_vaisseau |-> hauteur_vaisseau, rayon_missile |-> rayon_missile,
                    level_size |-> level_size, gravite_dist |-> gravite_dist,
                    last_screen_size |-> last_screen_size]
    IN  Only({
          Only({
            Only({
              [panicked |-> ma.panicked, vaisseau |-> va.vaisseau,
               liste_asteroid |-> ma.asteroids, missiles |-> ma.missiles,
               score |-> ma.score, next_id |-> ma.next_id, scale |-> sc]
              : ma \in {Shots(Missiles2(update_missiles(missiles, scr), fired), va)}})
            : va \in {Crafts(fired)}})
          : fired \in {Fire(update_model_vaisseau(vaisseau, keys, scr))}})

\* Win bonus: ((begin_time - get_time()) as f32).round() as i32, time in ms.
TimeBonus(time) == RDiv(begin_time - time, 1000)

ShieldBonus(v) == v.shield * 5

\* Faulty variant of the defeat branch: back to the configuration screen
\* without an end message.
PlayLoseSilent(keys, time, scr) ==
    /\ status = "running" /\ ~in_configuration
    /\ vaisseau.shield < 0
    /\ in_configuration' = TRUE
    /\ now' = time /\ screen' = scr
    /\ last' = "lose"
    /\ pre' = Snapshot([keys |-> keys, time |-> time, screen |-> scr])
    /\ UNCHANGED <<vaisseau, liste_asteroid, missiles, score, hauteur_vaisseau,
                   rayon_missile, level_size, gravite_dist, last_screen_size, status,
                   next_id, config_screen>>

\* Playing, shield < 0: defeat.
PlayLose(keys, time, scr) ==
    /\ status = "running" /\ ~in_configuration
    /\ vaisseau.shield < 0
    /\ config_screen' = SetEndMessage(config_screen, "lose", score)
    /\ in_configuration' = TRUE
    /\ now' = time /\ screen' = scr
    /\ last' = "lose"
    /\ pre' = Snapshot([keys |-> keys, time |-> time, screen |-> scr])
    /\ UNCHANGED <<vaisseau, liste_asteroid, missiles, score, hauteur_vaisseau,
                   rayon_missile, level_size, gravite_dist, last_screen_size, status,
                   next_id>>

\* Faulty variant of the victory branch: taken before the shield is looked at.
PlayWinFirst(keys, time, scr) ==
    /\ status = "running" /\ ~in_configuration
    /\ Len(liste_asteroid) = 0
    /\ score' = score + TimeBonus(time) + ShieldBonus(vaisseau)
    /\ config_screen' = SetEndMessage(config_screen, "win", score')
    /\ in_configuration' = TRUE
    /\ now' = time /\ screen' = scr
    /\ last' = "win"
    /\ pre' = Snapshot([keys |-> keys, time |-> time, screen |-> scr])
    /\ UNCHANGED <<vaisseau, liste_asteroid, missiles, hauteur_vaisseau, rayon_missile,
                   level_size, gravite_dist, last_screen_size, status, next_id>>

\* Playing, no asteroid left: victory.
PlayWin(keys, time, scr) ==
    /\ status = "running" /\ ~in_configuration
    /\ ~(vaisseau.shield < 0)
    /\ Len(liste_asteroid) = 0
    /\ score' = score + TimeBonus(time) + ShieldBonus(vaisseau)
    /\ config_screen' = SetEndMessage(config_screen, "win", score')
    /\ in_configuration' = TRUE
    /\ now' = time /\ screen' = scr
    /\ last' = "win"
    /\ pre' = Snapshot([keys |-> keys, time |-> time, screen |-> scr])
    /\ UNCHANGED <<vaisseau, liste_asteroid, missiles, hauteur_vaisseau, rayon_missile,
                   level_size, gravite_dist, last_screen_size, status, next_id>>

\* Faulty variant of the quit test: the key is never seen.
QuitRequestedNever(keys) == FALSE

\* is_key_down(KeyCode::Escape)
QuitRequested(keys) == "Escape" \in keys

\* Playing otherwise: the quit key, then the update pipeline.  When the
\* pipeline panics the state is the one at the time of the panic.
PlayUpdate(keys, time, scr) ==
    /\ status = "running" /\ ~in_configuration
    /\ ~(vaisseau.shield < 0)
    /\ ~(Len(liste_asteroid) = 0)
    /\ \E r \in {UpdatePipeline(keys, time, scr)} :
           /\ config_screen' = IF QuitRequested(keys)
                               THEN SetEndMessage(config_screen, "quit", score)
                               ELSE config_screen
           /\ in_configuration' = QuitRequested(keys)
           /\ vaisseau' = r.vaisseau
           /\ liste_asteroid' = r.liste_asteroid
           /\ missiles' = r.missiles
           /\ score' = r.score
           /\ next_id' = r.next_id
           /\ IF r.panicked
              THEN /\ status' = "panicked"
                   /\ last' = "panic"
                   /\ UNCHANGED <<hauteur_vaisseau, rayon_missile, level_size,
                                  gravite_dist, last_screen_size>>
              ELSE /\ hauteur_vaisseau' = r.scale.hauteur_vaisseau
                   /\ rayon_missile' = r.scale.rayon_missile
                   /\ level_size' = r.scale.level_size
                   /\ gravite_dist' = r.scale.gravite_dist
                   /\ last_screen_size' = r.scale.last_screen_size
                   /\ last' = IF QuitRequested(keys) THEN "quit" ELSE "play"
                   /\ UNCHANGED status
    /\ now' = time /\ screen' = scr
    /\ pre' = Snapshot([keys |-> keys, time |-> time, screen |-> scr])

\* Configuring: the sliders are updated; Start resets the game and starts a
\* round, Exit leaves the loop.
ConfigTick(mouse, time, scr, rnds) ==
    /\ status = "running" /\ in_configuration
    /\ \E cs \in {ConfigScreenUpdate(config_screen, mouse, scr)} :
           /\ config_screen' = cs
           /\ IF is_start_pressed(cs, mouse, scr)
              THEN /\ Len(rnds) = cs.asteroid_count
                   /\ \E r \in {reset_game(level_size, cs.asteroid_count,
                                            cs.asteroid_speed, FALSE, scr, time, rnds,
                                            next_id)} :
                          /\ in_configuration' = FALSE
                          /\ liste_asteroid' = r.liste_asteroid
                          /\ vaisseau' = r.vaisseau
                          /\ missiles' = r.missiles
                          /\ score' = r.score
                          /\ next_id' = r.next_id
                          /\ status' = IF r.panicked THEN "panicked" ELSE "running"
                          /\ last' = IF r.panicked THEN "panic" ELSE "start"
              ELSE /\ Len(rnds) = 0
                   /\ status' = IF is_exit_pressed(cs, mouse, scr) THEN "exited"
                                ELSE "running"
                   /\ last' = IF is_exit_pressed(cs, mouse, scr) THEN "exit" ELSE "config"
                   /\ UNCHANGED <<in_configuration, liste_asteroid, vaisseau, missiles,
                                  score, next_id>>
    /\ now' = time /\ screen' = scr
    /\ pre' = Snapshot([keys |-> {}, time |-> time, screen |-> scr, mouse |-> mouse])
    /\ UNCHANGED <<hauteur_vaisseau, rayon_missile, level_size, gravite_dist,
                   last_screen_size>>

---------------------------------------------------------------------------
(* Direct calls of the passes and of reset_game, as the tests of main.rs   *)
(* make them.                                                              *)

MissilePass ==
    /\ status = "running"
    /\ \E r \in {check_missiles_asteroids(missiles, liste_asteroid, rayon_missile,
                                         level_size, score, next_id)} :
           /\ missiles' = r.missiles
           /\ liste_asteroid' = r.asteroids
           /\ score' = r.score
           /\ next_id' = r.next_id
           /\ status' = IF r.panicked THEN "panicked" ELSE status
           /\ last' = IF r.panicked THEN "panic" ELSE "missile_pass"
    /\ pre' = Snapshot(NoInputs)
    /\ UNCHANGED <<vaisseau, in_configuration, config_screen, hauteur_vaisseau,
                   rayon_missile, level_size, gravite_dist, last_screen_size, screen, now>>

CraftPass ==
    /\ status = "running"
    /\ \E r \in {check_vaisseau_asteroids(vaisseau, liste_asteroid, hauteur_vaisseau,
                                         level_size, gravite_dist)} :
           /\ vaisseau' = r.vaisseau
           /\ liste_asteroid' = r.asteroids
    /\ last' = "craft_pass"
    /\ pre' = Snapshot(NoInputs)
    /\ UNCHANGED <<missiles, score, in_configuration, config_screen, hauteur_vaisseau,
                   rayon_missile, level_size, gravite_dist, last_screen_size, screen, now,
                   status, next_id>>

ResetGame(number_asteroid, asteroid_speed, test, rnds, time) ==
    /\ status = "running"
    /\ \E r \in {reset_game(level_size, number_asteroid, asteroid_speed, test, screen,
                               time, rnds, next_id)} :
           /\ liste_asteroid' = r.liste_asteroid
           /\ vaisseau' = r.vaisseau
           /\ missiles' = r.missiles
           /\ score' = r.score
           /\ next_id' = r.next_id
           /\ status' = IF r.panicked THEN "panicked" ELSE status
           /\ last' = IF r.panicked THEN "panic" ELSE "reset"
    /\ now' = time
    /\ pre' = Snapshot([keys |-> {}, time |-> time, screen |-> screen,
                        number_asteroid |-> number_asteroid,
                        asteroid_speed |-> asteroid_speed, test |-> test])
    /\ UNCHANGED <<in_configuration, config_screen, hauteur_vaisseau, rayon_missile,
                   level_size, gravite_dist, last_screen_size, screen>>

---------------------------------------------------------------------------
(* Bounds and input sets.                                                  *)

MaxAst == 2

MaxMis == 2

MaxResetN == 2

MaxNextId == 8

MaxTime == 500

MaxRot == 8

\* Window sizes: the size at start-up and a size the window is resized to.
InitScreen == <<300 * Q, 200 * Q>>

Screens == {InitScreen, <<270 * Q, 180 * Q>>}

\* Time between two iterations of the loop, in ms.
Dts == {250, 500}

KeyInputs == {{}, {"Space"}, {"Escape"}, {"Escape", "Space"}, {"Up", "Right"},
              {"Down", "Left"}}

\* Pointer states on the configuration screen: idle, on the count slider (1
\* and 2 asteroids), on the speed slider, on Start, on Start and the speed
\* slider, on Exit.
MouseInputs ==
    {[x |-> 0, y |-> 0, down |-> FALSE, pressed |-> FALSE],
     [x |-> 0, y |-> 80 * Q, down |-> TRUE, pressed |-> TRUE],
     [x |-> 13 * Q, y |-> 80 * Q, down |-> TRUE, pressed |-> FALSE],
     [x |-> 300 * Q, y |-> 150 * Q, down |-> TRUE, pressed |-> FALSE],
     [x |-> 150 * Q, y |-> 130 * Q, down |-> TRUE, pressed |-> TRUE],
     [x |-> 100 * Q, y |-> 145 * Q, down |-> TRUE, pressed |-> TRUE],
     [x |-> 150 * Q, y |-> 190 * Q, down |-> TRUE, pressed |-> TRUE]}

\* Draws of reset_game for one asteroid: direction <<cos, sin>> of the angle,
\* speed as a percentage of the range, side, place along the side (percent).
SpawnDraws ==
    {[dir |-> <<100, 0>>, frac |-> 0, side |-> 3, along |-> 50],
     [dir |-> <<0, 100>>, frac |-> 50, side |-> 0, along |-> 0],
     [dir |-> <<-60, 80>>, frac |-> 99, side |-> 1, along |-> 50],
     [dir |-> <<0, -100>>, frac |-> 50, side |-> 2, along |-> 99]}

\* Speed factors the configuration screen can supply: 0.3, 1.0, 5.0.
SpeedFactors == {30, 100, 500}

SeqsUpTo(S, n) == UNION {[1..k -> S] : k \in 0..n}

\* Asteroids of a collection are told apart by their ids.
WithIds(shapes) == [i \in 1..Len(shapes) |-> [shapes[i] EXCEPT !.id = i]]

AsteroidAt(position, speed, level, collided) ==
    [position |-> position, speed |-> speed, level |-> level, has_collided |-> collided,
     id |-> 0]

\* Playing states in which the passes are called: the craft at (100, 100),
\* asteroids 40, 60 and 150 px to its right, missiles 17 px below the first
\* asteroid, between the first two, and 30 px right of the third.
PassCraft ==
    [position |-> <<100 * Q, 100 * Q>>, rotation |-> 0, speed |-> ZERO, shield |-> InitShield,
     last_shot |-> 0]

PassAsteroids ==
    {AsteroidAt(p, <<30, -40>>, l, FALSE) :
        p \in {<<140 * Q, 100 * Q>>, <<160 * Q, 100 * Q>>, <<250 * Q, 100 * Q>>}, l \in 1..3}
    \cup {AsteroidAt(<<140 * Q, 100 * Q>>, <<30, -40>>, l, TRUE) : l \in 1..3}

PassMissiles ==
    {MissileNew(p, 0) : p \in {<<140 * Q, 117 * Q>>, <<150 * Q, 100 * Q>>, <<280 * Q, 100 * Q>>}}

\* Playing states between two iterations of the loop: the craft at the centre
\* or half a pixel from the left edge, at rest or moving left; an asteroid
\* 10 px right of the centre and one far away; missiles fired one after the
\* other, about to reach the first asteroid.
TickCrafts ==
    {[position |-> p, rotation |-> 0, speed |-> v, shield |-> sh, last_shot |-> 0] :
        p \in {<<150 * Q, 100 * Q>>, <<50, 100 * Q>>}, v \in {ZERO, <<-100, 0>>},
        sh \in {0, InitShield}}

TickAsteroids ==
    {AsteroidAt(<<160 * Q, 100 * Q>>, <<30, -40>>, 1, FALSE),
     AsteroidAt(<<160 * Q, 100 * Q>>, <<30, -40>>, 3, FALSE),
     AsteroidAt(<<250 * Q, 50 * Q>>, <<30, -40>>, 2, FALSE)}

TickMissiles ==
    {MissileNew(<<160 * Q, 100 * Q + 150>>, 0), MissileNew(<<160 * Q, 100 * Q + 300>>, 0)}

---------------------------------------------------------------------------
(* Specifications.                                                         *)

InitSizes ==
    /\ hauteur_vaisseau = InitHauteurVaisseau
    /\ rayon_missile = InitRayonMissile
    /\ level_size = InitLevelSize
    /\ gravite_dist = InitGraviteDist
    /\ last_screen_size = InitScreen
    /\ screen = InitScreen

\* The state after the initialisation of main.
Init ==
    /\ InitSizes
    /\ now = begin_time
    /\ score = 0
    /\ liste_asteroid = <<>>
    /\ vaisseau = VaisseauNew(None, None, InitScreen, begin_time)
    /\ missiles = <<>>
    /\ config_screen = ConfigScreenNew
    /\ in_configuration = TRUE
    /\ status = "running"
    /\ next_id = 1
    /\ last = "init"
    /\ pre = Snapshot(NoInputs)

\* An iteration of the configuration screen; Start creates MaxResetN
\* asteroids at most over a run.
Configure ==
    \E mouse \in MouseInputs, dt \in {0} \cup Dts,
       rnds \in SeqsUpTo(SpawnDraws, MaxResetN) :
        /\ now + dt <= MaxTime
        /\ next_id + Len(rnds) <= MaxResetN + 1
        /\ ConfigTick(mouse, now + dt, screen, rnds)

Lose ==
    \E keys \in KeyInputs, dt \in Dts, scr \in Screens :
        /\ now + dt <= MaxTime
        /\ PlayLose(keys, now + dt, scr)

Win ==
    \E keys \in KeyInputs, dt \in Dts, scr \in Screens :
        /\ now + dt <= MaxTime
        /\ PlayWin(keys, now + dt, scr)

Play ==
    \E keys \in KeyInputs, dt \in Dts, scr \in Screens :
        /\ now + dt <= MaxTime
        /\ Abs(vaisseau.rotation) < MaxRot
        /\ next_id <= MaxNextId
        /\ PlayUpdate(keys, now + dt, scr)

Next == Configure \/ Lose \/ Win \/ Play

Spec == Init /\ [][Next]_vars

\* A round in progress.
InitTick ==
    /\ InitSizes
    /\ now = begin_time
    /\ score = 0
    /\ \E shapes \in SeqsUpTo(TickAsteroids, MaxAst) :
          /\ liste_asteroid = WithIds(shapes)
          /\ next_id = Len(shapes) + 1
    /\ vaisseau \in TickCrafts
    /\ missiles \in SeqsUpTo(TickMissiles, MaxMis)
    /\ config_screen = ConfigScreenNew
    /\ in_configuration = FALSE
    /\ status = "running"
    /\ last = "init"
    /\ pre = Snapshot(NoInputs)

NextTick == Lose \/ Win \/ Play

SpecTick == InitTick /\ [][NextTick]_vars

\* The collision passes called on a round in progress.
InitPass ==
    /\ InitSizes
    /\ now = begin_time
    /\ score = 0
    /\ \E shapes \in SeqsUpTo(PassAsteroids, MaxAst) :
          /\ liste_asteroid = WithIds(shapes)
          /\ next_id = Len(shapes) + 1
    /\ vaisseau = PassCraft
    /\ missiles \in SeqsUpTo(PassMissiles, MaxMis)
    /\ config_screen = ConfigScreenNew
    /\ in_configuration = FALSE
    /\ status = "running"
    /\ last = "init"
    /\ pre = Snapshot(NoInputs)

NextPass == MissilePass \/ CraftPass

SpecPass == InitPass /\ [][NextPass]_vars

\* reset_game called, once, on a round in progress.
InitReset ==
    /\ InitSizes
    /\ now = begin_time
    /\ score \in {0, 60}
    /\ \E shapes \in SeqsUpTo(TickAsteroids, MaxAst - 1) :
          /\ liste_asteroid = WithIds(shapes)
          /\ next_id = Len(shapes) + 1
    /\ vaisseau \in {v \in TickCrafts :
                          v.shield = 0 /\ v.speed # ZERO /\ v.position[1] < Q}
    /\ missiles \in SeqsUpTo(TickMissiles, MaxMis - 1)
    /\ config_screen = ConfigScreenNew
    /\ in_configuration = FALSE
    /\ status = "running"
    /\ last = "init"
    /\ pre = Snapshot(NoInputs)

Reset ==
    \E n \in 0..MaxResetN, f \in SpeedFactors, test \in BOOLEAN,
       rnds \in SeqsUpTo(SpawnDraws, MaxResetN) :
        /\ Len(rnds) = n
        /\ last = "init"
        /\ next_id + n <= MaxNextId
        /\ ResetGame(n, f, test, rnds, now)

SpecReset == InitReset /\ [][Reset]_vars

\* check_vaisseau_asteroids called with a gravity range of 30 or 60 px on a
\* craft at (100, 100), at rest or moving left; asteroids 45, 75 and 150 px to
\* its right.
GravityRanges == {InitGraviteDist, 60 * Q}

GravityAsteroids ==
    {AsteroidAt(p, <<30, -40>>, l, FALSE) :
        p \in {<<145 * Q, 100 * Q>>, <<175 * Q, 100 * Q>>, <<250 * Q, 100 * Q>>}, l \in 1..3}

InitGravity ==
    /\ hauteur_vaisseau = InitHauteurVaisseau
    /\ rayon_missile = InitRayonMissile
    /\ level_size = InitLevelSize
    /\ gravite_dist \in GravityRanges
    /\ last_screen_size = InitScreen
    /\ screen = InitScreen
    /\ now = begin_time
    /\ score = 0
    /\ \E shapes \in SeqsUpTo(GravityAsteroids, MaxAst) :
          /\ liste_asteroid = WithIds(shapes)
          /\ next_id = Len(shapes) + 1
    /\ vaisseau \in {[PassCraft EXCEPT !.speed = s] : s \in {ZERO, <<-100, 0>>}}
    /\ missiles = <<>>
    /\ config_screen = ConfigScreenNew
    /\ in_configuration = FALSE
    /\ status = "running"
    /\ last = "init"
    /\ pre = Snapshot(NoInputs)

SpecGravity == InitGravity /\ [][CraftPass]_vars

\* A round in progress in which the fire key is pressed over five ticks: the
\* craft at the centre, at rest or moving left, one asteroid far from it.
MaxFireTime == 1250

FireKeys == {{}, {"Space"}, {"Space", "Right"}}

InitFire ==
    /\ InitSizes
    /\ now = begin_time
    /\ score = 0
    /\ liste_asteroid = WithIds(<<AsteroidAt(<<250 * Q, 50 * Q>>, <<30, -40>>, 2, FALSE)>>)
    /\ next_id = 2
    /\ vaisseau \in {v \in TickCrafts : v.position[1] = 150 * Q /\ v.shield = InitShield}
    /\ missiles = <<>>
    /\ config_screen = ConfigScreenNew
    /\ in_configuration = FALSE
    /\ status = "running"
    /\ last = "init"
    /\ pre = Snapshot(NoInputs)

PlayFire ==
    \E keys \in FireKeys, dt \in Dts :
        /\ now + dt <= MaxFireTime
        /\ Abs(vaisseau.rotation) < MaxRot
        /\ PlayUpdate(keys, now + dt, InitScreen)

SpecFire == InitFire /\ [][PlayFire]_vars

\* split_asteroid called on an asteroid of level 2 or 3 with the velocity of
\* a missile fired at any of the angles 0, 0.1, .. 3.1 rad.
SplitAngles == 0..31

SplitParents ==
    {AsteroidAt(p, s, l, TRUE) :
        p \in {<<160 * Q, 100 * Q>>, <<0, 50 * Q>>},
        s \in {<<30, -40>>, <<0, 200>>, <<-700, 700>>},
        l \in 2..3}

InitSplit ==
    /\ InitSizes
    /\ now = begin_time
    /\ score = 0
    /\ \E a \in SplitParents : liste_asteroid = WithIds(<<a>>)
    /\ next_id = 2
    /\ vaisseau = PassCraft
    /\ \E k \in SplitAngles : missiles = <<MissileNew(<<160 * Q, 100 * Q>>, k)>>
    /\ config_screen = ConfigScreenNew
    /\ in_configuration = FALSE
    /\ status = "running"
    /\ last = "init"
    /\ pre = Snapshot(NoInputs)

\* One call: the collection holds the pair returned.
Split ==
    /\ last = "init"
    /\ liste_asteroid' = SplitAsteroid(liste_asteroid[1], missiles[1].speed,
                                       next_id, next_id + 1)
    /\ next_id' = next_id + 2
    /\ last' = "split"
    /\ pre' = Snapshot(NoInputs)
    /\ UNCHANGED <<vaisseau, missiles, score, in_configuration, config_screen,
                   hauteur_vaisseau, rayon_missile, level_size, gravite_dist,
                   last_screen_size, screen, now, status>>

SpecSplit == InitSplit /\ [][Split]_vars

\* update_asteroids called on one asteroid over two ticks: the asteroid at a
\* spawn position of its level or within the window, on an edge or near one;
\* velocities from 0.5 px to 250 px per tick.
DriftPositions(level) ==
    {RandomPosition(level, InitLevelSize, InitScreen, side, along) :
        side \in 0..3, along \in {0, 100 * Q}}
    \cup {<<0, 0>>, InitScreen, <<InitScreen[1] - 10, 20>>}

DriftSpeeds == {<<30, -40>>, <<-1000, 1000>>, <<700, 0>>, <<-25000, 15000>>}

InitDrift ==
    /\ InitSizes
    /\ now = begin_time
    /\ score = 0
    /\ \E l \in 1..3 : \E p \in DriftPositions(l), s \in DriftSpeeds :
          liste_asteroid = WithIds(<<AsteroidAt(p, s, l, FALSE)>>)
    /\ next_id = 2
    /\ vaisseau = PassCraft
    /\ missiles = <<>>
    /\ config_screen = ConfigScreenNew
    /\ in_configuration = FALSE
    /\ status = "running"
    /\ last = "init"
    /\ pre = Snapshot(NoInputs)

Drift ==
    \E dt \in Dts :
        /\ now + dt <= MaxTime
        /\ liste_asteroid' = update_asteroids(liste_asteroid, screen)
        /\ now' = now + dt
        /\ last' = "drift"
        /\ pre' = Snapshot([keys |-> {}, time |-> now + dt, screen |-> screen])
        /\ UNCHANGED <<vaisseau, missiles, score, in_configuration, config_screen,
                       hauteur_vaisseau, rayon_missile, level_size, gravite_dist,
                       last_screen_size, screen, status, next_id>>

SpecDrift == InitDrift /\ [][Drift]_vars

\* update_missiles called tick after tick on one missile fired by a craft at
\* rest, at any of the angles 0, 0.1, .. 3.1 rad; the craft 3 px below the
\* top edge, 3 px left of the right edge, or at the centre.
MaxFlightTime == 1000

\* The time between two ticks: the shortest of Dts.
FlightDt == CHOOSE d \in Dts : \A e \in Dts : d <= e

FlightOrigins ==
    {<<100 * Q, 300>>, <<InitScreen[1] - 300, 100 * Q>>, <<150 * Q, 100 * Q>>}

InitFlight ==
    /\ InitSizes
    /\ now = begin_time
    /\ score = 0
    /\ liste_asteroid = <<>>
    /\ next_id = 1
    /\ \E p \in FlightOrigins : vaisseau = [PassCraft EXCEPT !.position = p]
    /\ \E k \in SplitAngles : missiles = <<MissileNew(vaisseau.position, k)>>
    /\ config_screen = ConfigScreenNew
    /\ in_configuration = FALSE
    /\ status = "running"
    /\ last = "init"
    /\ pre = Snapshot(NoInputs)

Flight ==
    /\ now + FlightDt <= MaxFlightTime
    /\ missiles' = update_missiles(missiles, screen)
    /\ now' = now + FlightDt
    /\ last' = "flight"
    /\ pre' = Snapshot([keys |-> {}, time |-> now + FlightDt, screen |-> screen])
    /\ UNCHANGED <<vaisseau, liste_asteroid, score, in_configuration, config_screen,
                   hauteur_vaisseau, rayon_missile, level_size, gravite_dist,
                   last_screen_size, screen, status, next_id>>

SpecFlight == InitFlight /\ [][Flight]_vars

\* A round in progress on which reset_game is called, or not, and Playing
\* ticks follow: nothing held or the fire key, in the same window.
RoundKeys == {{}, {"Space"}}

PlayRound ==
    \E keys \in RoundKeys, dt \in Dts :
        /\ now + dt <= MaxTime
        /\ PlayUpdate(keys, now + dt, screen)

NextRound == Reset \/ PlayRound

SpecRound == InitReset /\ [][NextRound]_vars

\* A round in progress whose window is resized between ticks, in proportion
\* or not; no key is held.
ScaleScreens == Screens \cup {<<400 * Q, 200 * Q>>, <<300 * Q, 150 * Q>>}

PlayScale ==
    \E scr \in ScaleScreens, dt \in Dts :
        /\ now + dt <= MaxFireTime
        /\ PlayUpdate({}, now + dt, scr)

SpecScale == InitFire /\ [][PlayScale]_vars

\* The position updates of a tick, update_model_vaisseau and
\* update_asteroids, on a craft one step from an edge or at the centre and an
\* asteroid one step from an edge or on one.
EdgeKeys == {{}, {"Up"}, {"Down"}}

EdgeCrafts ==
    {[PassCraft EXCEPT !.position = <<x, y>>, !.speed = s] :
        x \in {99, InitScreen[1] - 99, 150 * Q},
        y \in {100, InitScreen[2] - 100, 100 * Q},
        s \in {ZERO, <<-100, 0>>, <<100, 0>>}}

EdgeAsteroids ==
    {AsteroidAt(<<x, 40 * Q>>, s, 1, FALSE) :
        x \in {700, InitScreen[1] - 700, 0, InitScreen[1]},
        s \in {<<-700, 0>>, <<700, 0>>, <<30, -40>>}}

InitEdge ==
    /\ InitSizes
    /\ now = begin_time
    /\ score = 0
    /\ \E a \in EdgeAsteroids : liste_asteroid = WithIds(<<a>>)
    /\ next_id = 2
    /\ vaisseau \in EdgeCrafts
    /\ missiles = <<>>
    /\ config_screen = ConfigScreenNew
    /\ in_configuration = FALSE
    /\ status = "running"
    /\ last = "init"
    /\ pre = Snapshot(NoInputs)

Edge ==
    \E keys \in EdgeKeys, dt \in Dts :
        /\ now + dt <= MaxTime
        /\ vaisseau' = update_model_vaisseau(vaisseau, keys, screen)
        /\ liste_asteroid' = update_asteroids(liste_asteroid, screen)
        /\ now' = now + dt
        /\ last' = "edge"
        /\ pre' = Snapshot([keys |-> keys, time |-> now + dt, screen |-> screen])
        /\ UNCHANGED <<missiles, score, in_configuration, config_screen,
                       hauteur_vaisseau, rayon_missile, level_size, gravite_dist,
                       last_screen_size, screen, status, next_id>>

SpecEdge == InitEdge /\ [][Edge]_vars

\* A round started with one asteroid, A3, at almost 10 px per tick: A3 was
\* broken into B2 and C2 and C2 into D1 and E1, score 30 + 20.  B2 flies
\* into a line of one to three missiles fired 3 px apart, and another
\* missile comes from the right.
CapAsteroids ==
    <<AsteroidAt(<<160 * Q, 9010>>, <<0, 990>>, 2, FALSE),
      AsteroidAt(<<250 * Q, 50 * Q>>, <<0, 990>>, 1, FALSE),
      AsteroidAt(<<50 * Q, 50 * Q>>, <<0, -990>>, 1, FALSE)>>

CapLine == [k \in 1..3 |-> MissileNew(<<160 * Q, 121 * Q + 300 * (k - 1)>>, 0)]

CapFlank == MissileNew(<<189 * Q, 9996>>, -16)

InitCap ==
    /\ InitSizes
    /\ now = begin_time
    /\ score = 50
    /\ liste_asteroid = WithIds(CapAsteroids)
    /\ next_id = 4
    /\ vaisseau = [PassCraft EXCEPT !.position = <<40 * Q, 160 * Q>>]
    /\ \E k \in 1..3, flank \in BOOLEAN :
          missiles = SubSeq(CapLine, 1, k) \o (IF flank THEN <<CapFlank>> ELSE <<>>)
    /\ config_screen = [ConfigScreenNew EXCEPT !.asteroid_count = 1]
    /\ in_configuration = FALSE
    /\ status = "running"
    /\ last = "init"
    /\ pre = Snapshot(NoInputs)

SpecCap == InitCap /\ [][PlayFire]_vars

\* check_vaisseau_asteroids called with asteroids at the very position of
\* the craft, marked or not, one 45 px to its right and one far away.
OverlapAsteroids ==
    {AsteroidAt(PassCraft.position, <<30, -40>>, l, c) : l \in 1..3, c \in BOOLEAN}
    \cup {AsteroidAt(<<145 * Q, 100 * Q>>, <<30, -40>>, 3, FALSE),
          AsteroidAt(<<250 * Q, 100 * Q>>, <<30, -40>>, 1, FALSE)}

InitOverlap ==
    /\ InitSizes
    /\ now = begin_time
    /\ score = 0
    /\ \E shapes \in SeqsUpTo(OverlapAsteroids, MaxAst) :
          /\ liste_asteroid = WithIds(shapes)
          /\ next_id = Len(shapes) + 1
    /\ vaisseau \in {[PassCraft EXCEPT !.speed = s] : s \in {ZERO, <<-100, 0>>}}
    /\ missiles = <<>>
    /\ config_screen = ConfigScreenNew
    /\ in_configuration = FALSE
    /\ status = "running"
    /\ last = "init"
    /\ pre = Snapshot(NoInputs)

SpecOverlap == InitOverlap /\ [][CraftPass]_vars

(* Rounds in sequence: the loop from the configuration screen of a fresh   *)
(* program, or from the middle of a round with the craft at rest, at most  *)
(* one asteroid and no missile in flight.                                  *)

LoopCrafts == {c \in TickCrafts : c.speed = ZERO}

InitLoop ==
    \/ Init
    \/ /\ InitSizes
       /\ now = begin_time
       /\ score = 0
       /\ \E shapes \in SeqsUpTo(TickAsteroids, 1) :
             /\ liste_asteroid = WithIds(shapes)
             /\ next_id = Len(shapes) + 1
       /\ vaisseau \in LoopCrafts
       /\ missiles = <<>>
       /\ config_screen = ConfigScreenNew
       /\ in_configuration = FALSE
       /\ status = "running"
       /\ last = "init"
       /\ pre = Snapshot(NoInputs)

SpecLoop == InitLoop /\ [][Next]_vars

---------------------------------------------------------------------------

(* A round after a round: the loop from the middle of a round whose craft  *)
(* has turned and moves, with its shield spent or whole, at most one       *)
(* asteroid and at most one missile in flight.                             *)

RestartCrafts ==
    {[position |-> <<50, 100 * Q>>, rotation |-> 3, speed |-> <<-100, 0>>,
      shield |-> sh, last_shot |-> 0] : sh \in {-1, InitShield}}

InitRestart ==
    /\ InitSizes
    /\ now = begin_time
    /\ score \in {0, 60}
    /\ \E shapes \in SeqsUpTo(TickAsteroids, MaxAst - 1) :
          /\ liste_asteroid = WithIds(shapes)
          /\ next_id = Len(shapes) + 1
    /\ vaisseau \in RestartCrafts
    /\ missiles \in SeqsUpTo(TickMissiles, MaxMis - 1)
    /\ config_screen = ConfigScreenNew
    /\ in_configuration = FALSE
    /\ status = "running"
    /\ last = "init"
    /\ pre = Snapshot(NoInputs)

SpecRestart == InitRestart /\ [][Next]_vars

---------------------------------------------------------------------------

(* The configuration screen under the pointer: the pointer on, beside and  *)
(* off the two sliders and the two buttons, the left button down or up.    *)

ConfigPointers ==
    {[x |-> x, y |-> y, down |-> d, pressed |-> d] :
        x \in {-Q, 0, 13 * Q, 150 * Q, 300 * Q, 301 * Q},
        y \in {80 * Q, 91 * Q, 150 * Q, 190 * Q},
        d \in BOOLEAN}

InitPointer == Init

Pointer ==
    \E mouse \in ConfigPointers, rnds \in SeqsUpTo(SpawnDraws, MaxResetN) :
        /\ next_id + Len(rnds) <= MaxResetN + 1
        /\ ConfigTick(mouse, now, screen, rnds)

SpecPointer == InitPointer /\ [][Pointer]_vars

---------------------------------------------------------------------------

(* reset_game over the speed factors of the configuration screen: every    *)
(* factor from 0.3 to 5.0 in steps of 0.01, for one asteroid and more.     *)

ConfigSpeeds == 30..500

ResetAt ==
    \E n \in 1..MaxResetN, f \in ConfigSpeeds :
        \E rnds \in [1..n -> SpawnDraws] :
            /\ last = "init"
            /\ ResetGame(n, f, FALSE, rnds, now)

SpecSpeeds == Init /\ [][ResetAt]_vars

---------------------------------------------------------------------------

(* Missiles until they are gone: one missile fired from near the top edge, *)
(* near the right edge or the centre in any direction, alone or with a     *)
(* second one fired the opposite way, and update_missiles applied tick     *)
(* after tick with the screen as it is.  The loop takes a tick as long as  *)
(* the program runs, hence the fairness of SpecCullFair.                   *)

InitCull ==
    /\ InitSizes
    /\ now = begin_time
    /\ score = 0
    /\ liste_asteroid = <<>>
    /\ next_id = 1
    /\ \E p \in FlightOrigins : vaisseau = [PassCraft EXCEPT !.position = p]
    /\ \E k \in SplitAngles :
          \/ missiles = <<MissileNew(vaisseau.position, k)>>
          \/ missiles = <<MissileNew(vaisseau.position, k),
                          MissileNew(vaisseau.position, (k + 16) % 32)>>
    /\ config_screen = ConfigScreenNew
    /\ in_configuration = FALSE
    /\ status = "running"
    /\ last = "init"
    /\ pre = Snapshot(NoInputs)

Cull ==
    /\ missiles' = update_missiles(missiles, screen)
    /\ last' = "cull"
    /\ pre' = Snapshot([keys |-> {}, time |-> now, screen |-> screen])
    /\ UNCHANGED <<vaisseau, liste_asteroid, score, in_configuration, config_screen,
                   hauteur_vaisseau, rayon_missile, level_size, gravite_dist,
                   last_screen_size, screen, status, next_id, now>>

SpecCull == InitCull /\ [][Cull]_vars

SpecCullFair == SpecCull /\ WF_vars(Cull)

---------------------------------------------------------------------------

---------------------------------------------------------------------------
(* Properties of the missile-asteroid pass (SpecPass).  `pre` is the state *)
(* the last step started from.                                             *)

Dist2(p, q) == (p[1] - q[1]) * (p[1] - q[1]) + (p[2] - q[2]) * (p[2] - q[2])

\* Damage and score weight go by level; the radius of a level before the step.
PreSize(a) == pre.level_size[4 - a.level]

\* Sum of f[x] for x in S.
RECURSIVE SetSum(_, _)
SetSum(S, f) ==
    IF S = {} THEN 0
    ELSE LET x == CHOOSE y \in S : TRUE IN f[x] + SetSum(S \ {x}, f)

SetMin(S) == CHOOSE x \in S : \A y \in S : x <= y

\* Places in the collection before the step of the asteroids missile m is in
\* range of.
InRange(m) ==
    {j \in 1..Len(pre.liste_asteroid) :
        Dist2(m.position, pre.liste_asteroid[j].position)
            < (PreSize(pre.liste_asteroid[j]) + pre.rayon_missile)
              * (PreSize(pre.liste_asteroid[j]) + pre.rayon_missile)}

\* The missiles that hit, and the asteroid each of them hits.
Hitting == {i \in 1..Len(pre.missiles) : InRange(pre.missiles[i]) # {}}

FirstHit(i) == pre.liste_asteroid[SetMin(InRange(pre.missiles[i]))]

HitIds == {FirstHit(i).id : i \in Hitting}

Ids == {liste_asteroid[j].id : j \in 1..Len(liste_asteroid)}

Removed == {j \in 1..Len(pre.liste_asteroid) : pre.liste_asteroid[j].id \notin Ids}

\* C1: after a missile-asteroid pass the asteroids removed from the
\* collection are exactly the asteroids a missile hit: every asteroid that no
\* missile hit is still there and every hit asteroid is gone.
C1_RemovedAreExactlyHit ==
    last = "missile_pass" =>
        /\ \A j \in 1..Len(pre.liste_asteroid) :
               (\A i \in 1..Len(pre.missiles) : j \notin InRange(pre.missiles[i]))
                   => pre.liste_asteroid[j].id \in Ids
        /\ HitIds \cap Ids = {}

\* C2: the score increase of a missile-asteroid pass is 10 times the sum of
\* the levels of the asteroids the pass removes from the collection.
C2_ScoreIsTenTimesRemovedLevels ==
    last = "missile_pass" => score - pre.score = 10 * SetSum(Removed, [j \in Removed |-> pre.liste_asteroid[j].level])

\* C3: in a missile-asteroid pass each missile accounts for at most one
\* asteroid, the first in the collection among those it is in range of: that
\* asteroid is gone and is the one scored, no more asteroids go than missiles
\* hit, and the missiles that hit are out of the missile collection while the
\* others stay.
C3_FirstMatchOnly ==
    last = "missile_pass" =>
        /\ \A i \in Hitting : FirstHit(i).id \notin Ids
        /\ Cardinality(Removed) <= Cardinality(Hitting)
        /\ score - pre.score = 10 * SetSum(Hitting, [i \in Hitting |-> FirstHit(i).level])
        /\ missiles = SelectSeq(pre.missiles, LAMBDA m : InRange(m) = {})
        /\ \A k \in 1..Len(missiles) : ~missiles[k].has_collided

\* C3 witness: a missile in range of two asteroids took the first and the
\* second is still in the collection.
C3_Witness ==
    /\ last = "missile_pass"
    /\ \E i \in Hitting :
           /\ Cardinality(InRange(pre.missiles[i])) >= 2
           /\ \E j \in InRange(pre.missiles[i]) :
                  /\ j > SetMin(InRange(pre.missiles[i]))
                  /\ pre.liste_asteroid[j].id \in Ids

---------------------------------------------------------------------------
(* Properties of a Playing iteration of the main loop (SpecTick).          *)

\* The round has ended with a message of this kind.
EndedIn(kind) ==
    /\ in_configuration
    /\ config_screen.end_message # None
    /\ config_screen.end_message[1].kind = kind

EscapeHeld == last # "init" /\ "Escape" \in pre.inputs.keys

\* C4: at the end of every Playing iteration that ran the update pipeline
\* the missile collection holds no missile marked collided and no missile
\* outside [0, width] x [0, height], the missile fired in that iteration
\* included.
C4_NoDeadMissileKept ==
    last \in {"play", "quit"} =>
        \A k \in 1..Len(missiles) :
            /\ ~missiles[k].has_collided
            /\ missiles[k].position[1] >= 0 /\ missiles[k].position[1] <= screen[1]
            /\ missiles[k].position[2] >= 0 /\ missiles[k].position[2] <= screen[2]

---------------------------------------------------------------------------
(* Properties of reset_game (SpecReset).                                   *)

\* C5: after reset_game(N, speed), whatever the state before, the asteroid
\* collection has exactly N members, all of level 3 and not collided, the
\* missile collection is empty, the score is 0, and in test mode the craft
\* is at the fixed position (0, 0).
C5_ResetInvariants ==
    last = "reset" =>
        /\ Len(liste_asteroid) = pre.inputs.number_asteroid
        /\ \A j \in 1..Len(liste_asteroid) :
               liste_asteroid[j].level = 3 /\ ~liste_asteroid[j].has_collided
        /\ missiles = <<>>
        /\ score = 0
        /\ pre.inputs.test => vaisseau.position = <<0, 0>>

\* C5 witness: a test-mode reset to two asteroids of a round that had another
\* number of asteroids, a missile and a score.
C5_Witness ==
    /\ last = "reset"
    /\ pre.inputs.test
    /\ Len(liste_asteroid) >= 2
    /\ Len(pre.liste_asteroid) > 0
    /\ Len(pre.liste_asteroid) # Len(liste_asteroid)
    /\ pre.missiles # <<>>
    /\ pre.score # 0

---------------------------------------------------------------------------
(* Transitions of a Playing iteration (SpecTick).                          *)

\* C6: the checks of a Playing iteration are made in the order shield < 0
\* (defeat), no asteroid (victory), update pipeline: an iteration that starts
\* with shield < 0 ends in defeat, also when no asteroid is left, and leaves
\* the score alone; one that starts with shield >= 0 and no asteroid ends in
\* victory; one that starts with shield 0 does not end in defeat; any other
\* ends in neither; and an iteration that ends in victory or defeat leaves
\* the craft, the asteroids and the missiles as they were.
C6_TransitionOrder ==
    last # "init" =>
        /\ pre.vaisseau.shield < 0 =>
               /\ EndedIn("lose")
               /\ score = pre.score
               /\ config_screen.end_message[1].score = pre.score
        /\ (pre.vaisseau.shield >= 0 /\ pre.liste_asteroid = <<>>) => EndedIn("win")
        /\ pre.vaisseau.shield = 0 => ~EndedIn("lose")
        /\ (pre.vaisseau.shield >= 0 /\ pre.liste_asteroid # <<>>) =>
               ~EndedIn("lose") /\ ~EndedIn("win")
        /\ (EndedIn("lose") \/ EndedIn("win")) =>
               /\ vaisseau = pre.vaisseau
               /\ liste_asteroid = pre.liste_asteroid
               /\ missiles = pre.missiles

\* C6 witness: an iteration that started with shield < 0 and no asteroid
\* left has ended in defeat.
C6_Witness ==
    /\ last # "init"
    /\ pre.vaisseau.shield < 0
    /\ pre.liste_asteroid = <<>>
    /\ EndedIn("lose")

\* C7: a Playing iteration in which Escape is held, and which ends with the
\* quit message, changes nothing but the message and the mode: the craft,
\* the asteroids, the missiles and the score are as before it, and the score
\* in the message is the score at its end.
C7_QuitHasNoSideEffect ==
    (EscapeHeld /\ EndedIn("quit")) =>
        /\ vaisseau = pre.vaisseau
        /\ liste_asteroid = pre.liste_asteroid
        /\ missiles = pre.missiles
        /\ score = pre.score
        /\ config_screen.end_message[1].score = score

---------------------------------------------------------------------------
(* Properties of the craft-asteroid pass (SpecPass).                       *)

\* Asteroid j is within collision distance of the craft before the step.
Touching(j) ==
    Dist2(pre.liste_asteroid[j].position, pre.vaisseau.position)
        <= (PreSize(pre.liste_asteroid[j]) + pre.hauteur_vaisseau)
           * (PreSize(pre.liste_asteroid[j]) + pre.hauteur_vaisseau)

Touched == {j \in 1..Len(pre.liste_asteroid) : Touching(j)}

\* C9: a craft-asteroid pass takes the damage of an asteroid at most once,
\* and a second pass right after a first one leaves the shield as it is,
\* every asteroid within collision distance being marked already.
C9_PassIdempotentOnShield ==
    last = "craft_pass" =>
        /\ pre.vaisseau.shield - vaisseau.shield
               <= SetSum(Touched, [j \in Touched |-> pre.liste_asteroid[j].level])
        /\ pre.last = "craft_pass" =>
               /\ vaisseau.shield = pre.vaisseau.shield
               /\ \A j \in Touched : pre.liste_asteroid[j].has_collided

\* C9 witness: a second pass in a row, on a craft the first pass damaged and
\* with an asteroid within collision distance.
C9_Witness ==
    /\ last = "craft_pass"
    /\ pre.last = "craft_pass"
    /\ Touched # {}
    /\ pre.vaisseau.shield < InitShield
    /\ vaisseau.shield = pre.vaisseau.shield

\* C10: after a craft-asteroid pass the shield is its value before minus the
\* sum of the levels of the asteroids within collision distance that were
\* not marked collided; those asteroids are marked, and every other asteroid
\* keeps its mark.
C10_ShieldLosesLevelOfEachNewContact ==
    last = "craft_pass" =>
        LET fresh == {j \in Touched : ~pre.liste_asteroid[j].has_collided}
        IN  /\ vaisseau.shield
                   = pre.vaisseau.shield
                     - SetSum(fresh, [j \in fresh |-> pre.liste_asteroid[j].level])
            /\ Len(liste_asteroid) = Len(pre.liste_asteroid)
            /\ \A j \in 1..Len(liste_asteroid) :
                   liste_asteroid[j].has_collided
                       = (pre.liste_asteroid[j].has_collided \/ Touching(j))

\* C10 witness: a craft at shield 5 with one level-3 asteroid within
\* collision distance and another asteroid out of it has shield 2, the first
\* asteroid marked and the second not.
C10_Witness ==
    /\ last = "craft_pass"
    /\ pre.vaisseau.shield = InitShield
    /\ Len(pre.liste_asteroid) = 2
    /\ Touched = {1}
    /\ pre.liste_asteroid[1].level = 3
    /\ ~pre.liste_asteroid[1].has_collided
    /\ vaisseau.shield = InitShield - 3
    /\ liste_asteroid[1].has_collided
    /\ ~liste_asteroid[2].has_collided

---------------------------------------------------------------------------
(* Properties of the gravity pull (SpecGravity).                           *)

\* Asteroid j is within gravity distance of the craft before the step.
Pulling(j) ==
    Dist2(pre.liste_asteroid[j].position, pre.vaisseau.position)
        <= (PreSize(pre.liste_asteroid[j]) + pre.gravite_dist)
           * (PreSize(pre.liste_asteroid[j]) + pre.gravite_dist)

\* The asteroids beyond collision distance and within gravity distance.
InRing == {j \in 1..Len(pre.liste_asteroid) : Pulling(j) /\ ~Touching(j)}

\* C11: after a craft-asteroid pass, when the last asteroid within gravity
\* distance lies beyond collision distance, the velocity of the craft is the
\* gravity pull toward that asteroid, whatever it was before.
C11_RingAsteroidPulls ==
    last = "craft_pass" =>
        \A j \in InRing :
            (\A k \in (j + 1)..Len(pre.liste_asteroid) : ~Pulling(k))
                => vaisseau.speed
                       = calculate_gravity(pre.vaisseau, pre.liste_asteroid[j], G_CONSTANT,
                                           pre.hauteur_vaisseau, pre.level_size)

---------------------------------------------------------------------------
(* Properties of firing (SpecFire).                                        *)

\* The step was a Playing tick that ran the update pipeline.
Ticked == last \in {"play", "quit"}

\* fire_missile may fire in the tick: the fire key is held and the cooldown
\* has elapsed since the last shot.
FireAllowed ==
    /\ "Space" \in pre.inputs.keys
    /\ pre.inputs.time - pre.vaisseau.last_shot >= FireCooldown

\* C12: in a Playing tick at time t a missile is fired exactly when the fire
\* key is held and t - last_shot >= 0.5 s; then last_shot becomes t and the
\* missile pushed is at the position of the craft, heading along its
\* rotation; otherwise last_shot is unchanged and no missile is added.  A
\* tick adds one missile at most, and a shot comes 0.5 s at least after the
\* shot before it.
C12_FireOnlyAfterCooldown ==
    Ticked =>
        /\ Len(missiles) <= Len(pre.missiles) + 1
        /\ FireAllowed =>
               /\ vaisseau.last_shot = pre.inputs.time
               /\ \/ /\ Len(missiles) > 0
                     /\ missiles[Len(missiles)]
                            = MissileNew(vaisseau.position, vaisseau.rotation)
                  \/ score > pre.score
        /\ ~FireAllowed =>
               /\ vaisseau.last_shot = pre.vaisseau.last_shot
               /\ Len(missiles) <= Len(pre.missiles)
        /\ vaisseau.last_shot # pre.vaisseau.last_shot =>
               vaisseau.last_shot - pre.vaisseau.last_shot >= FireCooldown

\* C12 witness: a second shot, in a tick 0.25 s after the tick before it and
\* 0.5 s at least after the first shot, which is still in flight.
C12_Witness ==
    /\ Ticked
    /\ FireAllowed
    /\ pre.vaisseau.last_shot >= FireCooldown
    /\ pre.inputs.time - pre.now < FireCooldown
    /\ Len(pre.missiles) = 1
    /\ Len(missiles) = 2
    /\ missiles[2] = MissileNew(vaisseau.position, vaisseau.rotation)
    /\ vaisseau.last_shot = pre.inputs.time

---------------------------------------------------------------------------
(* Properties of asteroid levels (SpecTick).                               *)

\* The asteroids the step created: those whose id the collection did not
\* hold before it.
Spawned ==
    {j \in 1..Len(liste_asteroid) :
        \A k \in 1..Len(pre.liste_asteroid) :
            pre.liste_asteroid[k].id # liste_asteroid[j].id}

\* C13: in every state of a round every asteroid has level 1, 2 or 3, and the
\* asteroids a tick creates, the children of a split, have level 1 or 2:
\* split_asteroid is called on level 2 and 3 only.
C13_LevelsStayInRange ==
    /\ \A j \in 1..Len(liste_asteroid) : liste_asteroid[j].level \in 1..3
    /\ Ticked => \A j \in Spawned : liste_asteroid[j].level \in 1..2

\* C13 witness: a tick in which a missile broke a level-1 asteroid, which is
\* gone, and no asteroid was created.
C13_Witness ==
    /\ last = "play"
    /\ score = pre.score + 10
    /\ \E k \in 1..Len(pre.liste_asteroid) :
           /\ pre.liste_asteroid[k].level = 1
           /\ pre.liste_asteroid[k].id \notin Ids
    /\ Spawned = {}

---------------------------------------------------------------------------
(* Properties of split_asteroid (SpecSplit).  Velocities are fixed-point    *)
(* numbers: a product or quotient is exact up to one unit, 1/Q.            *)

Dot(a, b) == a[1] * b[1] + a[2] * b[2]

\* C14: split_asteroid on an asteroid of level L > 1 with a non-zero missile
\* velocity v returns two asteroids of level L - 1, at the position of the
\* parent, not collided, whose velocities are negatives of each other,
\* perpendicular to v and as long as the velocity of the parent, up to the
\* rounding of the normalisation and of the product.
C14_SplitGivesTwoOppositeChildren ==
    last = "split" =>
        LET parent == pre.liste_asteroid[1]
            v == pre.missiles[1].speed
            norm == Length(parent.speed)
            \* rounding of a component of a child's velocity, in units of 1/Q
            slack == norm \div Q + 1
        IN  /\ Len(liste_asteroid) = 2
            /\ \A j \in 1..2 :
                   /\ liste_asteroid[j].level = parent.level - 1
                   /\ liste_asteroid[j].position = parent.position
                   /\ ~liste_asteroid[j].has_collided
                   /\ Abs(Dot(liste_asteroid[j].speed, v)) <= (Abs(v[1]) + Abs(v[2])) * slack
                   /\ Abs(Length(liste_asteroid[j].speed) - norm) <= 2 * slack
            /\ liste_asteroid[1].speed = VNeg(liste_asteroid[2].speed)

\* C14 witness: a level-3 asteroid moving at 0.5 px per tick split by a
\* missile flying obliquely: two level-2 children moving apart.
C14_Witness ==
    /\ last = "split"
    /\ pre.liste_asteroid[1].level = 3
    /\ Length(pre.liste_asteroid[1].speed) = 50
    /\ pre.missiles[1].speed[1] # 0 /\ pre.missiles[1].speed[2] # 0
    /\ Len(liste_asteroid) = 2
    /\ liste_asteroid[1].level = 2
    /\ liste_asteroid[1].speed # ZERO
    /\ liste_asteroid[1].speed = VNeg(liste_asteroid[2].speed)

---------------------------------------------------------------------------
(* Properties of the position updates (SpecTick, SpecDrift, SpecFlight).   *)

\* Position p lies within the window scr.
OnScreen(p, scr) == p[1] >= 0 /\ p[1] <= scr[1] /\ p[2] >= 0 /\ p[2] <= scr[2]

\* C15: a craft within the window before a Playing tick is within the window
\* after it, i.e. after its update_position, which is the only step of the
\* tick to move it.
C15_CraftStaysOnScreen ==
    (Ticked /\ OnScreen(pre.vaisseau.position, pre.inputs.screen))
        => OnScreen(vaisseau.position, pre.inputs.screen)

\* Coordinate c of an asteroid of the given size is within [0, max] or at a
\* spawn offset, and the velocity component s is shorter than max - size.
DriftAdmissible(c, s, size, max) ==
    /\ (c >= 0 /\ c <= max) \/ c = -size \/ c = max + size
    /\ Abs(s) < max - size

\* Coordinate c moved by s and wrapped is within [0, max]: c + s itself when
\* within, max + (c + s) when negative, (c + s) - max when beyond max.
DriftWrapped(c, s, max, after) ==
    /\ after >= 0 /\ after <= max
    /\ after = IF c + s < 0 THEN max + (c + s)
               ELSE IF c + s > max THEN (c + s) - max
               ELSE c + s

\* C16: after update_position an asteroid that was within the window or at a
\* spawn position, with velocity components shorter than the window
\* dimension minus its size, is within the window; a coordinate gone negative
\* re-enters at max + coord, one gone beyond max at coord - max.
C16_AsteroidWrapsIntoWindow ==
    last = "drift" =>
        \A j \in 1..Len(pre.liste_asteroid) :
            LET a == pre.liste_asteroid[j]
                after == liste_asteroid[j].position
            IN  \A d \in 1..2 :
                    DriftAdmissible(a.position[d], a.speed[d], PreSize(a), pre.inputs.screen[d])
                        => DriftWrapped(a.position[d], a.speed[d], pre.inputs.screen[d],
                                        after[d])

\* C16 witness: an asteroid at the spawn offset left of the window and moving
\* left re-enters from the right edge, at max + coord.
C16_Witness ==
    /\ last = "drift"
    /\ pre.liste_asteroid[1].position[1] = -PreSize(pre.liste_asteroid[1])
    /\ pre.liste_asteroid[1].speed[1] < 0
    /\ liste_asteroid[1].position[1]
           = screen[1] + pre.liste_asteroid[1].position[1] + pre.liste_asteroid[1].speed[1]
    /\ liste_asteroid[1].position[1] > 0
    /\ liste_asteroid[1].position[1] < screen[1]

\* C17: a missile fired from P with velocity v is at P + n v after n updates,
\* its velocity unchanged and its position not wrapped, and update_missiles
\* keeps it exactly when 0 <= x <= width and 0 <= y <= height after the
\* update: is_off_screen is true when x < 0, x > width, y < 0 or y > height,
\* and false on the edges.
C17_MissileFliesStraight ==
    last = "flight" =>
        /\ \A j \in 1..Len(missiles) :
               missiles[j].position
                   = VAdd(vaisseau.position,
                          <<(now \div FlightDt) * missiles[j].speed[1],
                            (now \div FlightDt) * missiles[j].speed[2]>>)
        /\ \A j \in 1..Len(pre.missiles) :
               LET m == pre.missiles[j]
                   moved == VAdd(m.position, m.speed)
               IN  IF OnScreen(moved, screen)
                   THEN \E k \in 1..Len(missiles) :
                            missiles[k] = [m EXCEPT !.position = moved]
                   ELSE \A k \in 1..Len(missiles) : missiles[k].position # moved

\* C17 witness: a missile fired straight up from 3 px below the top edge is
\* on the edge, y = 0, after two updates, and is kept.
C17_Witness ==
    /\ last = "flight"
    /\ now = 2 * FlightDt
    /\ Len(missiles) = 1
    /\ missiles[1].speed = <<0, -MissileSpeed>>
    /\ missiles[1].position = <<100 * Q, 0>>

---------------------------------------------------------------------------
(* Properties of the score (SpecTick, SpecReset).                          *)

\* Time elapsed in the round when the step was taken, in ms; the rounds of
\* SpecTick start at begin_time.
RoundElapsed == pre.inputs.time - begin_time

\* C18: a Playing tick that starts with no asteroid left and shield >= 0 adds
\* to the score the time elapsed in the round, in seconds, rounded, plus 5
\* times the shield, and returns to the configuration screen.
C18_WinAddsBonus ==
    last = "win" =>
        /\ score = pre.score + RDiv(RoundElapsed, 1000) + 5 * pre.vaisseau.shield
        /\ score >= pre.score
        /\ in_configuration

\* C19: the score is 0 after reset_game, and a tick of the update pipeline
\* never lowers it: it grows by a positive multiple of 10, and only when the
\* missile-asteroid pass removed an asteroid.
C19_ScoreGrowsByTens ==
    /\ last = "reset" => score = 0
    /\ Ticked =>
           /\ score >= pre.score
           /\ (score - pre.score) % 10 = 0
           /\ score # pre.score => Removed # {}

\* C19 witness: a tick in which a missile broke an asteroid and the score
\* went from 60 to 70 or more.
C19_Witness ==
    /\ last = "play"
    /\ pre.score = 60
    /\ score >= 70
    /\ Removed # {}

---------------------------------------------------------------------------
(* Properties of the rescaling (SpecScale).                                *)

\* (w1 / w0 + h1 / h0) / 2 for the sizes old = <<w0, h0>> and new = <<w1, h1>>.
ScaleOf(old, new) == TDiv(TDiv(new[1] * Q, old[1]) + TDiv(new[2] * Q, old[2]), 2)

\* C20: a tick that finds the window at a size other than the cached one
\* multiplies the craft size, the missile radius, the three asteroid sizes
\* and the gravity range by (w1 / w0 + h1 / h0) / 2 and caches the new size;
\* a tick that finds the window at the cached size changes none of them.
C20_RescaledOncePerResize ==
    Ticked =>
        LET scr == pre.inputs.screen
            s == ScaleOf(pre.last_screen_size, scr)
        IN  IF pre.last_screen_size # scr
            THEN /\ hauteur_vaisseau = TDiv(pre.hauteur_vaisseau * s, Q)
                 /\ rayon_missile = TDiv(pre.rayon_missile * s, Q)
                 /\ \A i \in 1..3 : level_size[i] = TDiv(pre.level_size[i] * s, Q)
                 /\ gravite_dist = TDiv(pre.gravite_dist * s, Q)
                 /\ last_screen_size = scr
            ELSE /\ hauteur_vaisseau = pre.hauteur_vaisseau
                 /\ rayon_missile = pre.rayon_missile
                 /\ level_size = pre.level_size
                 /\ gravite_dist = pre.gravite_dist
                 /\ last_screen_size = pre.last_screen_size

\* C20 witness: the window went from 300 x 200 to 400 x 200, the sizes were
\* multiplied by (1.33 + 1) / 2 = 1.16 in the tick that saw it, and the tick
\* after, in the same window, left them alone.
C20_Witness ==
    /\ last = "play"
    /\ pre.last = "play"
    /\ pre.inputs.screen = <<400 * Q, 200 * Q>>
    /\ pre.last_screen_size = <<400 * Q, 200 * Q>>
    /\ pre.hauteur_vaisseau = TDiv(InitHauteurVaisseau * 116, Q)
    /\ hauteur_vaisseau = pre.hauteur_vaisseau
    /\ level_size = <<TDiv(InitLevelSize[1] * 116, Q), TDiv(InitLevelSize[2] * 116, Q),
                      TDiv(InitLevelSize[3] * 116, Q)>>
    /\ gravite_dist = TDiv(InitGraviteDist * 116, Q)

---------------------------------------------------------------------------
(* Properties of the wraps on the edges (SpecEdge).                        *)

\* C21: a coordinate of the craft or of an asteroid that the update drives
\* to exactly 0 or exactly max is left there by the wrap, within [0, max],
\* and the wrap applied to the result returns it again.
C21_EdgeCoordinateStays ==
    last = "edge" =>
        \A d \in 1..2 :
            /\ pre.vaisseau.position[d] + vaisseau.speed[d] \in {0, screen[d]}
                   => /\ vaisseau.position[d]
                             = pre.vaisseau.position[d] + vaisseau.speed[d]
                      /\ VaisseauWrapPosition(vaisseau.position[d], screen[d])
                             = vaisseau.position[d]
            /\ \A j \in 1..Len(liste_asteroid) :
                   LET a == pre.liste_asteroid[j]
                       after == liste_asteroid[j].position[d]
                   IN  a.position[d] + a.speed[d] \in {0, screen[d]}
                           => /\ after = a.position[d] + a.speed[d]
                              /\ AsteroidWrapPosition(after, screen[d]) = after

\* C21 witness: the craft, thrusting, reaches the top edge, y = 0, from 1 px
\* below it, and the asteroid reaches the right edge, x = width, from 7 px
\* left of it.
C21_Witness ==
    /\ last = "edge"
    /\ pre.vaisseau.position[2] = 100
    /\ vaisseau.speed[2] = -100
    /\ vaisseau.position[2] = 0
    /\ pre.liste_asteroid[1].position[1] = screen[1] - 700
    /\ liste_asteroid[1].position[1] = screen[1]

---------------------------------------------------------------------------
(* Further properties of the missile-asteroid pass (SpecPass, SpecTick).   *)

\* C22: check_missiles_asteroids never removes at an index beyond the end of
\* the asteroid collection: the pass does not panic, whichever asteroid is
\* hit, the last or the only one included.
C22_RemovalNeverPanics == status # "panicked" /\ last # "panic"

\* C23: in a round started with N asteroids, N the count of the
\* configuration screen, the score never exceeds 110 N.
C23_ScoreAtMost110PerAsteroid ==
    ~in_configuration => score <= 110 * config_screen.asteroid_count

---------------------------------------------------------------------------
(* Further properties of the craft-asteroid pass (SpecPass, SpecGravity).  *)

\* C24: a craft-asteroid pass leaves the score, the missiles and the number,
\* order, position, velocity and level of the asteroids as they were, and of
\* the craft changes the shield and the velocity only; asteroids are created
\* by the missile-asteroid pass alone, two for each missile that hit an
\* asteroid of level > 1.
C24_OnlyMissilesFragment ==
    /\ last = "craft_pass" =>
           /\ score = pre.score
           /\ missiles = pre.missiles
           /\ Len(liste_asteroid) = Len(pre.liste_asteroid)
           /\ \A j \in 1..Len(liste_asteroid) :
                  [liste_asteroid[j] EXCEPT !.has_collided = FALSE]
                      = [pre.liste_asteroid[j] EXCEPT !.has_collided = FALSE]
           /\ [vaisseau EXCEPT !.shield = 0, !.speed = ZERO]
                  = [pre.vaisseau EXCEPT !.shield = 0, !.speed = ZERO]
    /\ last = "missile_pass" =>
           /\ Cardinality(Spawned)
                  = 2 * Cardinality({i \in Hitting : FirstHit(i).level > 1})
           /\ vaisseau = pre.vaisseau

\* C24 witness: a craft-asteroid pass in which the craft touched an asteroid
\* of level 3, lost shield, and the asteroid, marked, is still there, whole.
C24_Witness ==
    /\ last = "craft_pass"
    /\ Len(pre.liste_asteroid) > 0
    /\ 1 \in Touched
    /\ pre.liste_asteroid[1].level = 3
    /\ ~pre.liste_asteroid[1].has_collided
    /\ liste_asteroid[1].has_collided
    /\ liste_asteroid[1].level = 3
    /\ vaisseau.shield < pre.vaisseau.shield
    /\ Len(liste_asteroid) = Len(pre.liste_asteroid)

Reached == {j \in 1..Len(pre.liste_asteroid) : Pulling(j)}

\* C26: after a craft-asteroid pass with asteroids within gravity distance,
\* the velocity of the craft is the gravity vector of the last of them in the
\* order of the collection, whatever the velocity before the pass and the
\* pulls of the asteroids before it.
C26_LastPullReplacesVelocity ==
    (last = "craft_pass" /\ Reached # {})
        => \E j \in Reached :
               /\ \A k \in Reached : k <= j
               /\ vaisseau.speed
                      = calculate_gravity(pre.vaisseau, pre.liste_asteroid[j], G_CONSTANT,
                                          pre.hauteur_vaisseau, pre.level_size)

\* Asteroid j is at the very position of the craft before the step.
Overlapping(j) == pre.liste_asteroid[j].position = pre.vaisseau.position

\* C27: calculate_gravity for an asteroid at the position of the craft is the
\* zero vector; after a craft-asteroid pass in which the last asteroid within
\* collision distance is at the position of the craft the craft is at rest,
\* and every asteroid at that position that was not marked is marked and has
\* taken its level off the shield.
C27_SamePositionPullsNothing ==
    last = "craft_pass" =>
        /\ \A j \in 1..Len(pre.liste_asteroid) :
               Overlapping(j) =>
                   /\ calculate_gravity(pre.vaisseau, pre.liste_asteroid[j], G_CONSTANT,
                                        pre.hauteur_vaisseau, pre.level_size) = ZERO
                   /\ (\A k \in Touched : k <= j) => vaisseau.speed = ZERO
                   /\ liste_asteroid[j].has_collided
        /\ LET fresh == {j \in Touched : ~pre.liste_asteroid[j].has_collided}
           IN  vaisseau.shield
                   = pre.vaisseau.shield
                     - SetSum(fresh, [j \in fresh |-> pre.liste_asteroid[j].level])

\* C27 witness: a moving craft with one asteroid of level 2, not marked, at
\* its very position is at rest after the pass, with 2 off its shield.
C27_Witness ==
    /\ last = "craft_pass"
    /\ Len(pre.liste_asteroid) = 1
    /\ Overlapping(1)
    /\ pre.liste_asteroid[1].level = 2
    /\ ~pre.liste_asteroid[1].has_collided
    /\ pre.vaisseau.speed # ZERO
    /\ vaisseau.speed = ZERO
    /\ vaisseau.shield = pre.vaisseau.shield - 2

---------------------------------------------------------------------------
(* Properties of a round over its ticks (SpecTick, SpecLoop).              *)

\* The asteroid of the collection before the step with the identity of a.
Before(a) ==
    pre.liste_asteroid[CHOOSE k \in 1..Len(pre.liste_asteroid) :
                           pre.liste_asteroid[k].id = a.id]

\* The asteroids that were not marked when the step started.
Unmarked == {k \in 1..Len(pre.liste_asteroid) : ~pre.liste_asteroid[k].has_collided}

\* C28: an asteroid marked has_collided stays marked for as long as it is in
\* the collection, and a tick takes off the shield the levels of asteroids
\* that were not marked when it started and are marked or gone when it ends,
\* and no more: an asteroid damages the craft once at most.
C28_AsteroidDamagesOnce ==
    Ticked =>
        /\ \A j \in 1..Len(liste_asteroid) :
               (j \notin Spawned /\ Before(liste_asteroid[j]).has_collided)
                   => liste_asteroid[j].has_collided
        /\ LET paid == {k \in Unmarked :
                           \A j \in 1..Len(liste_asteroid) :
                               liste_asteroid[j].id = pre.liste_asteroid[k].id
                                   => liste_asteroid[j].has_collided}
           IN  pre.vaisseau.shield - vaisseau.shield
                   <= SetSum(paid, [k \in paid |-> pre.liste_asteroid[k].level])
        /\ Unmarked = {} => vaisseau.shield = pre.vaisseau.shield

\* C28 witness: a second tick with the asteroid that damaged the craft in the
\* first still within collision distance: it stays marked and the shield is
\* not reduced again.
C28_Witness ==
    /\ last = "play"
    /\ pre.last = "play"
    /\ Len(pre.liste_asteroid) = 1
    /\ pre.liste_asteroid[1].has_collided
    /\ pre.vaisseau.shield < InitShield
    /\ Len(liste_asteroid) = 1
    /\ liste_asteroid[1].id = pre.liste_asteroid[1].id
    /\ liste_asteroid[1].has_collided
    /\ Dist2(liste_asteroid[1].position, vaisseau.position)
           <= (PreSize(liste_asteroid[1]) + hauteur_vaisseau)
              * (PreSize(liste_asteroid[1]) + hauteur_vaisseau)
    /\ vaisseau.shield = pre.vaisseau.shield

\* C29: the win transition never lowers the score: the score with the win
\* bonus is the score the tick started with, or more.
C29_WinNeverLowersScore == last = "win" => score >= pre.score


\* The tick started in the configuration screen / in a round.
FromConfiguring == last # "init" /\ pre.in_configuration

FromPlaying == last # "init" /\ ~pre.in_configuration

\* The collections, craft and score reset_game leaves for the configured
\* asteroid count and speed: count asteroids of level 3, not collided, each
\* with a speed in the configured range, no missile, a new craft, score 0.
FreshRound ==
    /\ Len(liste_asteroid) = config_screen.asteroid_count
    /\ \A i \in 1..Len(liste_asteroid) :
          /\ liste_asteroid[i].level = 3
          /\ ~liste_asteroid[i].has_collided
          /\ Dot(liste_asteroid[i].speed, liste_asteroid[i].speed)
                 <= MaxSpeed(config_screen.asteroid_speed)
                        * MaxSpeed(config_screen.asteroid_speed)
          /\ Isqrt(Dot(liste_asteroid[i].speed, liste_asteroid[i].speed)) + 2
                 >= MinSpeed(config_screen.asteroid_speed)
    /\ missiles = <<>>
    /\ vaisseau = VaisseauNew(None, None, pre.inputs.screen, now)
    /\ score = 0

\* C30: a tick that starts and ends in Configuring leaves the craft, the
\* asteroids, the missiles and the score as they were; a tick goes from
\* Configuring to Playing exactly when Start is pressed, and that tick ends
\* with the round reset_game makes for the configured count and speed; a tick
\* that goes from Playing to Configuring is a win, a lose or a quit and has
\* set the end message of its kind, and every win, lose or quit ends in
\* Configuring.
C30_RoundStateMachine ==
    /\ (FromConfiguring /\ in_configuration) =>
           /\ vaisseau = pre.vaisseau
           /\ liste_asteroid = pre.liste_asteroid
           /\ missiles = pre.missiles
           /\ score = pre.score
    /\ FromConfiguring =>
           (~in_configuration
               <=> is_start_pressed(config_screen, pre.inputs.mouse, pre.inputs.screen))
    /\ (FromConfiguring /\ ~in_configuration) => (last = "start" /\ FreshRound)
    /\ (FromPlaying /\ in_configuration) =>
           /\ config_screen.end_message # None
           /\ config_screen.end_message[1].kind \in {"win", "lose", "quit"}
           /\ last \in {"win", "lose", "quit", "panic"}
           /\ last # "panic" => config_screen.end_message[1].kind = last
    /\ last \in {"win", "lose", "quit"} => in_configuration

\* A round started from the configuration screen that shows the message of
\* a round won or lost before.
C30_Witness ==
    /\ last = "start"
    /\ ~in_configuration
    /\ Len(liste_asteroid) > 0
    /\ config_screen.end_message # None
    /\ config_screen.end_message[1].kind \in {"win", "lose"}


---------------------------------------------------------------------------
(* Properties of a round that follows a round (SpecRestart).               *)

\* C31: the tick that starts a round leaves a craft with shield 5, zero
\* velocity and rotation 0, whatever craft the round before left, and the
\* tick after it is not the defeat.
C31_ResetRecreatesCraft ==
    /\ last = "start" =>
           /\ vaisseau.shield = 5
           /\ vaisseau.speed = ZERO
           /\ vaisseau.rotation = 0
    /\ (last # "init" /\ pre.last = "start") => last # "lose"

\* The first tick of a round started after a lost round, whose craft was
\* left turned, moving and with a negative shield.
C31_Witness ==
    /\ last = "play"
    /\ pre.last = "start"
    /\ config_screen.end_message # None
    /\ config_screen.end_message[1].kind = "lose"


---------------------------------------------------------------------------
(* Properties of the configuration screen (SpecPointer).                   *)

\* C32: the configured asteroid count is an integer from 1 to 25 and the
\* configured speed is from 0.3 to 5.0, 10 and 1.0 before the first update,
\* and a round is started with the count configured.
C32_ConfiguredInRange ==
    /\ config_screen.asteroid_count \in 1..25
    /\ config_screen.asteroid_speed >= 30
    /\ config_screen.asteroid_speed <= 500
    /\ last = "init" =>
           (config_screen.asteroid_count = 10 /\ config_screen.asteroid_speed = 100)
    /\ last = "start" => Len(liste_asteroid) = config_screen.asteroid_count

\* The count brought to 25 and the speed to 0.3 by the pointer at the ends
\* of the sliders.
C32_Witness ==
    /\ last = "config"
    /\ config_screen # pre.config_screen
    /\ config_screen.asteroid_count = 25
    /\ config_screen.asteroid_speed = 30


\* C33: for a speed factor from 0.3 to 5.0 the lower bound of the speed
\* range of reset_game is strictly below the upper bound, the draw of a
\* speed does not panic, and reset_game ends with the N asteroids asked for.
C33_SpeedRangeNeverEmpty ==
    last # "init" =>
        /\ MinSpeed(pre.inputs.asteroid_speed) < MaxSpeed(pre.inputs.asteroid_speed)
        /\ status = "running"
        /\ last = "reset"
        /\ Len(liste_asteroid) = pre.inputs.number_asteroid

\* reset_game done for two asteroids at the lowest factor, 0.3.
C33_Witness ==
    /\ last = "reset"
    /\ pre.inputs.asteroid_speed = 30
    /\ Len(liste_asteroid) = 2


---------------------------------------------------------------------------
(* Properties of the first tick of a round (SpecRound).                    *)

\* The edge an asteroid of size s at p lies beyond, as random_position
\* places it: 0 top, 1 right, 2 bottom, 3 left; 4 when it lies beyond none.
SpawnSide(p, s, scr) ==
    IF p[2] = -s /\ p[1] >= 0 /\ p[1] <= scr[1] THEN 0
    ELSE IF p[1] = scr[1] + s /\ p[2] >= 0 /\ p[2] <= scr[2] THEN 1
    ELSE IF p[2] = scr[2] + s /\ p[1] >= 0 /\ p[1] <= scr[1] THEN 2
    ELSE IF p[1] = -s /\ p[2] >= 0 /\ p[2] <= scr[2] THEN 3
    ELSE 4

\* p is still beyond the edge of that side, and within the screen along it.
StillBeyond(p, side, scr) ==
    CASE side = 0 -> p[2] < 0 /\ p[1] >= 0 /\ p[1] <= scr[1]
      [] side = 1 -> p[1] > scr[1] /\ p[2] >= 0 /\ p[2] <= scr[2]
      [] side = 2 -> p[2] > scr[2] /\ p[1] >= 0 /\ p[1] <= scr[1]
      [] side = 3 -> p[1] < 0 /\ p[2] >= 0 /\ p[2] <= scr[2]
      [] OTHER -> FALSE

\* C34: reset_game without a fixed position leaves every asteroid beyond one
\* of the four edges by its size, the other coordinate within the screen;
\* and the update_position that follows moves such an asteroid by exactly
\* its velocity, with no wrap, while that leaves it beyond its edge.
C34_SpawnedDriftsIntoView ==
    /\ (last = "reset" /\ ~pre.inputs.test) =>
           \A i \in 1..Len(liste_asteroid) :
               SpawnSide(liste_asteroid[i].position,
                         LevelToSize(liste_asteroid[i].level, level_size), screen) # 4
    /\ (last = "play" /\ pre.last = "reset") =>
           \A i \in 1..Len(pre.liste_asteroid), j \in 1..Len(liste_asteroid) :
               LET a == pre.liste_asteroid[i]
                   side == SpawnSide(a.position, LevelToSize(a.level, pre.level_size),
                                     pre.inputs.screen)
                   moved == VAdd(a.position, a.speed)
               IN  (/\ liste_asteroid[j].id = a.id
                    /\ StillBeyond(moved, side, pre.inputs.screen))
                       => liste_asteroid[j].position = moved


---------------------------------------------------------------------------
(* Properties of the craft's speed over the ticks of a round (SpecTick).   *)

\* The craft as update_position leaves it in the tick that ended.
Updated == VaisseauUpdatePosition(pre.vaisseau, pre.inputs.keys, pre.inputs.screen)

\* C35: the velocity update_position leaves in a Playing tick has magnitude
\* at most 1.0 (to the 0.01 the components are kept to), also when the
\* craft-asteroid pass of the tick before left a pull of magnitude above 1.0
\* as the velocity, and the craft ends the tick where that velocity takes it
\* from where it was (wrapped).
C35_SpeedCappedAtOne ==
    Ticked =>
        /\ Length(Updated.speed) <= Q
        /\ vaisseau.position =
               VaisseauBoundPosition(VAdd(pre.vaisseau.position, Updated.speed),
                                     pre.inputs.screen)

\* A tick that started with a velocity of magnitude above 1.0, left by a pull
\* in the tick before.
C35_Witness ==
    /\ Ticked
    /\ pre.last = "play"
    /\ Length(pre.vaisseau.speed) > Q
    /\ Length(Updated.speed) <= Q


---------------------------------------------------------------------------
(* Properties of the collision distance (SpecPass).                        *)

\* The asteroids at a squared distance from missile i of at most the square
\* of the sum of the radii.
Reaching(i) ==
    {j \in 1..Len(pre.liste_asteroid) :
        Dist2(pre.missiles[i].position, pre.liste_asteroid[j].position)
            <= (PreSize(pre.liste_asteroid[j]) + pre.rayon_missile)
               * (PreSize(pre.liste_asteroid[j]) + pre.rayon_missile)}

\* C36: a missile whose squared distance to an asteroid is less than or equal
\* to the square of the sum of their radii hits: the missiles left by a
\* missile-asteroid pass are the missiles that were at no such distance to
\* any asteroid, so that a missile at exactly that distance is gone.
C36_HitAtCollisionDistance ==
    last = "missile_pass" =>
        Len(missiles) = Cardinality({i \in 1..Len(pre.missiles) : Reaching(i) = {}})


---------------------------------------------------------------------------
(* Properties of missiles over the ticks of a round (SpecCullFair).        *)

\* C37: with the screen size fixed and a tick taken again and again, the
\* missiles in the collection are eventually all removed: none stays forever.
C37_MissilesEventuallyGone == (missiles # <<>>) ~> (missiles = <<>>)

\* The tick in which update_missiles removes the last missile, fired from the
\* centre of the screen.
C37_Witness ==
    /\ last = "cull"
    /\ vaisseau.position = <<150 * Q, 100 * Q>>
    /\ pre.missiles # <<>>
    /\ missiles = <<>>


---------------------------------------------------------------------------
(* Properties of the order of the steps in a tick (SpecTick).              *)

\* The missile fire_missile makes of the craft update_position has moved.
Shot == MissileNew(Updated.position, Updated.rotation)

\* The asteroids as update_asteroids leaves them in the tick that ended.
Drifted == update_asteroids(pre.liste_asteroid, pre.inputs.screen)

\* The moved asteroids the missile just fired is within hitting distance of.
ShotReach ==
    {j \in 1..Len(Drifted) :
        Dist2(Shot.position, Drifted[j].position)
            < (PreSize(Drifted[j]) + pre.rayon_missile)
              * (PreSize(Drifted[j]) + pre.rayon_missile)}

\* C38: in a Playing tick the craft, the asteroids and the missiles move,
\* then the fire key is looked at, then the craft-asteroid pass runs, then the
\* missile-asteroid pass.  A missile fired in the tick is at the position the
\* craft has moved to: when no moved asteroid is within hitting distance of
\* it, it ends the tick there, last in the collection and not moved; when
\* one is, the missile and the first such asteroid are gone, the score has
\* grown by 10 per level of that asteroid at least, and the craft has paid
\* the damage of that asteroid before, if it was not marked and touches it.
C38_FiredMissileJoinsPass ==
    (Ticked /\ FireAllowed) =>
        IF ShotReach = {}
        THEN /\ Len(missiles) > 0
             /\ missiles[Len(missiles)] = Shot
        ELSE LET hit == Drifted[SetMin(ShotReach)]
             IN  /\ \A k \in 1..Len(missiles) : missiles[k].position # Shot.position
                 /\ hit.id \notin Ids
                 /\ score >= pre.score + 10 * hit.level
                 /\ (/\ ~hit.has_collided
                     /\ Dist2(hit.position, Updated.position)
                            <= (PreSize(hit) + pre.hauteur_vaisseau)
                               * (PreSize(hit) + pre.hauteur_vaisseau))
                        => vaisseau.shield <= pre.vaisseau.shield - hit.level

\* A missile fired with none in flight destroys, in the tick it is fired,
\* the only asteroid, of level 1, which has damaged the craft in that tick.
C38_Witness ==
    /\ last = "play"
    /\ FireAllowed
    /\ pre.missiles = <<>>
    /\ Len(pre.liste_asteroid) = 1
    /\ pre.liste_asteroid[1].level = 1
    /\ ShotReach = {1}
    /\ liste_asteroid = <<>>
    /\ missiles = <<>>
    /\ score = pre.score + 10
    /\ vaisseau.shield = pre.vaisseau.shield - 1

============================================================================
